---- MODULE Spec2Model ----
(***************************************************************************)
(* Control layer of the grammar-checking client: the request coordinator   *)
(* of App.tsx (activeRequestIdRef and the handlers), the retry policy      *)
(* retryWithBackoff of the gemini service, and the localStorage-backed     *)
(* store (history, app state, API key, version).                           *)
(*                                                                         *)
(* Conventions.  A JS string that is serialised data is a sequence of      *)
(* string tokens; a free text (input, corrected sentence) is represented   *)
(* by its length; `null`/absent is the empty tuple <<>> and a present      *)
(* value v is <<v>>.                                                       *)
(***************************************************************************)
EXTENDS Integers, Sequences, FiniteSets, TLC

VARIABLES now, activeRequestIdRef, inputText, grammarResult, rewriteResult,
          quickRewriteState, loadingState, currentView, historyUpdateTrigger,
          alerts, calls, localStorage, uuidCount, exported, last, minted, returned,
          profileHistory, isDictionaryOpen, dictionaryTerm, dictionaryData,
          dictionaryLoading, dictionaryError, lookups, saveTimer

appVars   == <<activeRequestIdRef, inputText, grammarResult, rewriteResult,
               quickRewriteState, loadingState, currentView,
               historyUpdateTrigger, minted>>
storeVars == <<localStorage, uuidCount, exported>>
dictVars  == <<isDictionaryOpen, dictionaryTerm, dictionaryData, dictionaryLoading,
               dictionaryError, lookups>>
vars      == <<now, appVars, calls, storeVars, alerts, last, returned,
               profileHistory, dictVars, saveTimer>>

----------------------------------------------------------------------------
(* Bounds of the model *)

MaxCalls   == 2
MaxNow     == 2
MaxRetries == 4
MaxHist    == 2
MaxIds     == 3

(* Program constants *)

DefaultRetries      == 3
DefaultInitialDelay == 2000
SnippetMax          == 60

STORAGE_KEY         == "grammarguard_history"
STATE_KEY           == "grammarguard_app_state"
API_KEY_STORAGE_KEY == "grammarguard_api_key"
VERSION_KEY         == "grammarguard_version"
THEME_KEY           == "grammarguard_theme"
COLOR_KEY           == "grammarguard_color_scheme"
CURRENT_VERSION     == "1.0.3"

Keys == {STORAGE_KEY, STATE_KEY, API_KEY_STORAGE_KEY, VERSION_KEY, THEME_KEY, COLOR_KEY}

Null    == <<>>
Some(v) == <<v>>

----------------------------------------------------------------------------
(* Generic helpers *)

Includes(s, w) == \E i \in 1..Len(s) : s[i] = w

RECURSIVE Pow2(_)
Pow2(n) == IF n = 0 THEN 1 ELSE 2 * Pow2(n - 1)

Max(a, b) == IF a >= b THEN a ELSE b

----------------------------------------------------------------------------
(* Errors raised by the remote operation.  An error is an Error instance   *)
(* or a plain object; `message` is its message as a sequence of words and  *)
(* `code` the code of its structured payload error.error (0: no payload).  *)

Words == {"MISSING_API_KEY", "PERMISSION_DENIED", "403", "Permission denied",
          "429", "RESOURCE_EXHAUSTED", "Quota", "503", "Overloaded",
          "No response text from Gemini"}

Codes == {0, 403, 429, 503, 500}

Messages == {<<>>} \cup {<<w>> : w \in Words}
              \cup {<<"MISSING_API_KEY", w>> : w \in {"403", "PERMISSION_DENIED", "429"}}
              \cup {<<"429", w>> : w \in {"403", "503", "Permission denied"}}
              \cup {<<"Overloaded", "PERMISSION_DENIED">>}

Errors == [name : {"Error", "Object"}, message : Messages, code : Codes]

NoError == [name |-> "none", message |-> <<>>, code |-> 0]

NewError(msg) == [name |-> "Error", message |-> msg, code |-> 0]

MissingKeyError == NewError(<<"MISSING_API_KEY">>)

PermissionError == NewError(<<"PERMISSION_DENIED">>)

(* JSON.stringify(error.error) of the payload {"code": c, "status": s} *)
StatusOf(c) == CASE c = 403 -> "PERMISSION_DENIED"
                 [] c = 429 -> "RESOURCE_EXHAUSTED"
                 [] c = 503 -> "UNAVAILABLE"
                 [] OTHER   -> "INTERNAL"

StringifyPayload(c) == <<"{", "code", ToString(c), "status", StatusOf(c), "}">>

(* JSON.stringify(error): own enumerable properties only; the message of   *)
(* an Error instance is not enumerable, that of a plain object is.         *)
StringifyError(e) ==
    <<"{">>
    \o (IF e.name = "Object" /\ e.message # <<>> THEN <<"message">> \o e.message ELSE <<>>)
    \o (IF e.code # 0 THEN <<"error">> \o StringifyPayload(e.code) ELSE <<>>)
    \o <<"}">>

ErrorToString(e) == IF e.name = "Error"
                    THEN (IF e.message = <<>> THEN <<"Error">> ELSE <<"Error:">> \o e.message)
                    ELSE <<"[object Object]">>

(* The text retryWithBackoff inspects *)
ExtractMsg(e) == e.message
                 \o (IF e.code # 0 THEN StringifyPayload(e.code) ELSE <<>>)
                 \o StringifyError(e)
                 \o ErrorToString(e)

IsMissingKey(msg) == Includes(msg, "MISSING_API_KEY")

IsPermissionDenied(msg) == \/ Includes(msg, "PERMISSION_DENIED")
                           \/ Includes(msg, "403")
                           \/ Includes(msg, "Permission denied")

IsRateLimit(msg) == \/ Includes(msg, "429")
                    \/ Includes(msg, "RESOURCE_EXHAUSTED")
                    \/ Includes(msg, "Quota")

IsServerOverload(msg) == Includes(msg, "503") \/ Includes(msg, "Overloaded")

(* A backoff that starts one doubling too far *)
WaitTime_FromDouble(initialDelay, attempt) == initialDelay * Pow2(attempt)

WaitTime(initialDelay, attempt) == initialDelay * Pow2(attempt - 1)

(* A policy that allows one attempt more than `retries` *)
RetryDecision_OneMore(e, attempt, retries) ==
    LET msg == ExtractMsg(e) IN
    IF IsMissingKey(msg) THEN "throwSame"
    ELSE IF IsPermissionDenied(msg) THEN "throwPermission"
    ELSE IF ~IsRateLimit(msg) /\ ~IsServerOverload(msg) THEN "throwSame"
    ELSE IF attempt + 1 > retries THEN "exhausted"
    ELSE "retry"

(* A policy that tests the permission patterns before the missing key *)
RetryDecision_PermissionFirst(e, attempt, retries) ==
    LET msg == ExtractMsg(e) IN
    IF IsPermissionDenied(msg) THEN "throwPermission"
    ELSE IF IsMissingKey(msg) THEN "throwSame"
    ELSE IF ~IsRateLimit(msg) /\ ~IsServerOverload(msg) THEN "throwSame"
    ELSE IF attempt + 1 >= retries THEN "exhausted"
    ELSE "retry"

(* What the catch block of retryWithBackoff does with error e when         *)
(* `attempt` retryable failures were counted before it.                    *)
RetryDecision(e, attempt, retries) ==
    LET msg == ExtractMsg(e) IN
    IF IsMissingKey(msg) THEN "throwSame"
    ELSE IF IsPermissionDenied(msg) THEN "throwPermission"
    ELSE IF ~IsRateLimit(msg) /\ ~IsServerOverload(msg) THEN "throwSame"
    ELSE IF attempt + 1 >= retries THEN "exhausted"
    ELSE "retry"

(* A catch block that raises a fresh error carrying the extracted message *)
Thrown_Rewrapped(e, decision) ==
    CASE decision = "throwPermission" -> PermissionError
      [] decision \in {"throwSame", "exhausted"} -> NewError(ExtractMsg(e))
      [] OTHER -> NoError

Thrown(e, decision) == CASE decision = "throwPermission" -> PermissionError
                         [] decision \in {"throwSame", "exhausted"} -> e
                         [] OTHER -> NoError

(* The text the App handlers inspect: error?.message || error?.toString() *)
HandlerMsg(e) == IF e.message # <<>> THEN e.message ELSE ErrorToString(e)

----------------------------------------------------------------------------
(* History entries and their JSON form *)

MaxNum == 100

Undefined == "undefined"

EntryKeys == <<"id", "timestamp", "textSnippet", "fullText", "errorCount",
               "suggestionCount", "isPerfect", "type", "rewriteStyle">>

NumKeys == {"timestamp", "textSnippet", "fullText", "errorCount", "suggestionCount"}

EmptyEntry == [id |-> Undefined, timestamp |-> 0, textSnippet |-> 0, fullText |-> 0,
               errorCount |-> 0, suggestionCount |-> 0, isPerfect |-> FALSE,
               type |-> Undefined, rewriteStyle |-> Undefined]

(* The decimal numerals of the numbers the model uses *)
Numerals == [n \in 0..MaxNum |-> ToString(n)]

Num2Str(n) == Numerals[n]

Str2Num(t) == CHOOSE n \in 0..MaxNum : Numerals[n] = t

Encode(k, v) == IF k \in NumKeys THEN Num2Str(v)
                ELSE IF k = "isPerfect" THEN (IF v THEN "true" ELSE "false")
                ELSE v

Decode(k, t) == IF k \in NumKeys THEN Str2Num(t)
                ELSE IF k = "isPerfect" THEN (t = "true")
                ELSE t

(* JSON.stringify of one entry: keys in creation order, undefined omitted *)
RECURSIVE StringifyFields(_, _)
StringifyFields(e, i) ==
    IF i > Len(EntryKeys) THEN <<>>
    ELSE LET k == EntryKeys[i] IN
         (IF k \in {"id", "type", "rewriteStyle"} /\ e[k] = Undefined
          THEN <<>> ELSE <<k, Encode(k, e[k])>>)
         \o StringifyFields(e, i + 1)

StringifyEntry(e) == <<"{">> \o StringifyFields(e, 1) \o <<"}">>

RECURSIVE StringifyEntries(_)
StringifyEntries(h) == IF h = <<>> THEN <<>>
                       ELSE StringifyEntry(Head(h)) \o StringifyEntries(Tail(h))

(* JSON.stringify of an array of entries *)
StringifyHistory(h) == <<"[">> \o StringifyEntries(h) \o <<"]">>

ParseFail == [ok |-> FALSE, val |-> <<>>, next |-> 0]

(* Parses the key/value pairs of an entry from position i up to its "}" *)
RECURSIVE ParseFields(_, _, _)
ParseFields(s, i, acc) ==
    IF i > Len(s) THEN ParseFail
    ELSE IF s[i] = "}" THEN [ok |-> TRUE, val |-> acc, next |-> i + 1]
    ELSE IF i + 1 > Len(s) \/ ~Includes(EntryKeys, s[i]) THEN ParseFail
    ELSE ParseFields(s, i + 2, [acc EXCEPT ![s[i]] = Decode(s[i], s[i + 1])])

(* Parses the elements of an array from position i up to its "]" *)
RECURSIVE ParseElems(_, _, _)
ParseElems(s, i, acc) ==
    IF i > Len(s) THEN ParseFail
    ELSE IF s[i] = "]" THEN [ok |-> TRUE, val |-> acc, next |-> i + 1]
    ELSE IF s[i] # "{" THEN ParseFail
    ELSE LET r == ParseFields(s, i + 1, EmptyEntry) IN
         IF ~r.ok THEN ParseFail ELSE ParseElems(s, r.next, Append(acc, r.val))

ParseArray(s, i) == IF i <= Len(s) /\ s[i] = "[" THEN ParseElems(s, i + 1, <<>>) ELSE ParseFail

BundleKeys == {"history", "theme", "colorScheme", "version"}

EmptyBundle == [hasHistory |-> FALSE, history |-> <<>>, theme |-> Undefined,
                colorScheme |-> Undefined, version |-> Undefined]

(* Parses the members of the export object from position i up to its "}" *)
RECURSIVE ParseMembers(_, _, _)
ParseMembers(s, i, acc) ==
    IF i > Len(s) THEN ParseFail
    ELSE IF s[i] = "}" THEN [ok |-> TRUE, val |-> acc, next |-> i + 1]
    ELSE IF i + 1 > Len(s) \/ s[i] \notin BundleKeys THEN ParseFail
    ELSE IF s[i] = "history"
         THEN IF s[i + 1] = "["
              THEN LET r == ParseArray(s, i + 1) IN
                   IF ~r.ok THEN ParseFail
                   ELSE ParseMembers(s, r.next, [acc EXCEPT !.hasHistory = TRUE, !.history = r.val])
              ELSE IF s[i + 1] \in {"{", "}", "]"} THEN ParseFail
              ELSE ParseMembers(s, i + 2, acc)
    ELSE IF s[i + 1] \in {"{", "}", "[", "]"} THEN ParseFail
    ELSE ParseMembers(s, i + 2, [acc EXCEPT ![s[i]] = s[i + 1]])

(* JSON.parse: [ok, kind, val]; ok = FALSE stands for a SyntaxError *)
JSONParse(s) ==
    IF s = <<>> THEN [ok |-> FALSE, kind |-> "error", val |-> <<>>]
    ELSE IF s[1] = "["
         THEN LET r == ParseArray(s, 1) IN
              IF r.ok /\ r.next = Len(s) + 1
              THEN [ok |-> TRUE, kind |-> "array", val |-> r.val]
              ELSE [ok |-> FALSE, kind |-> "error", val |-> <<>>]
    ELSE IF s[1] = "{"
         THEN LET r == ParseMembers(s, 2, EmptyBundle) IN
              IF r.ok /\ r.next = Len(s) + 1
              THEN [ok |-> TRUE, kind |-> "object", val |-> r.val]
              ELSE [ok |-> FALSE, kind |-> "error", val |-> <<>>]
    ELSE [ok |-> FALSE, kind |-> "error", val |-> <<>>]

(* JSON.stringify of the export object {history, theme, colorScheme, version} *)
StringifyBundle(h, theme, colorScheme, version) ==
    <<"{", "history">> \o StringifyHistory(h)
    \o <<"theme", theme, "colorScheme", colorScheme, "version", version, "}">>

----------------------------------------------------------------------------
(* localStorage and the storage service *)

GetItem(ls, k) == ls[k]

SetItem(ls, k, v) == [ls EXCEPT ![k] = Some(v)]

RemoveItem(ls, k) == [ls EXCEPT ![k] = Null]

Truthy(item) == item # Null /\ item[1] # <<>>

getHistory(ls) ==
    LET item == GetItem(ls, STORAGE_KEY) IN
    IF ~Truthy(item) THEN <<>>
    ELSE LET p == JSONParse(item[1]) IN
         IF p.ok /\ p.kind = "array" THEN p.val ELSE <<>>

(* content.length > 60 ? content.substring(0, 60) + '...' : content *)
Snippet(content) == IF content > SnippetMax THEN SnippetMax + 3 ELSE content

IsCritical(s) == s.isError /\ (s.severity = "critical" \/ s.severity = Undefined)

IsSuggestion(s) == s.isError /\ s.severity = "suggestion"

CountCritical(segs) == Cardinality({i \in 1..Len(segs) : IsCritical(segs[i])})

CountSuggestion(segs) == Cardinality({i \in 1..Len(segs) : IsSuggestion(segs[i])})

(* saveHistory(text, analysis) with a fresh id and the current time *)
saveHistory(ls, text, analysis, id, time) ==
    LET history         == getHistory(ls)
        errorCount      == CountCritical(analysis.segments)
        suggestionCount == CountSuggestion(analysis.segments)
        content  == IF analysis.correctedSentence # 0 THEN analysis.correctedSentence ELSE text
        newEntry == [id |-> id, timestamp |-> time,
                     textSnippet |-> Snippet(content), fullText |-> content,
                     errorCount |-> errorCount, suggestionCount |-> suggestionCount,
                     isPerfect |-> (errorCount = 0 /\ suggestionCount = 0),
                     type |-> "grammar", rewriteStyle |-> Undefined]
    IN SetItem(ls, STORAGE_KEY, StringifyHistory(<<newEntry>> \o history))

saveRewriteHistory(ls, analysis, id, time) ==
    LET history  == getHistory(ls)
        content  == analysis.rewrittenText
        newEntry == [id |-> id, timestamp |-> time,
                     textSnippet |-> Snippet(content), fullText |-> content,
                     errorCount |-> 0, suggestionCount |-> 0, isPerfect |-> TRUE,
                     type |-> "rewrite", rewriteStyle |-> analysis.style]
    IN SetItem(ls, STORAGE_KEY, StringifyHistory(<<newEntry>> \o history))

(* A variant that writes the new entry alone *)
saveDictionaryHistory_Overwrites(ls, term, id, time) ==
    SetItem(ls, STORAGE_KEY,
            StringifyHistory(<<[id |-> id, timestamp |-> time,
                                textSnippet |-> term, fullText |-> term,
                                errorCount |-> 0, suggestionCount |-> 0, isPerfect |-> TRUE,
                                type |-> "dictionary", rewriteStyle |-> Undefined]>>))

saveDictionaryHistory(ls, term, id, time) ==
    LET history  == getHistory(ls)
        newEntry == [id |-> id, timestamp |-> time,
                     textSnippet |-> term, fullText |-> term,
                     errorCount |-> 0, suggestionCount |-> 0, isPerfect |-> TRUE,
                     type |-> "dictionary", rewriteStyle |-> Undefined]
    IN SetItem(ls, STORAGE_KEY, StringifyHistory(<<newEntry>> \o history))

clearHistory(ls) == RemoveItem(ls, STORAGE_KEY)

ItemOrNullTok(item) == IF item = Null THEN "null" ELSE item[1][1]

(* A variant that writes the stored credential into the file *)
exportHistoryJSON_WithCredential(ls) ==
    StringifyBundle(getHistory(ls), ItemOrNullTok(GetItem(ls, THEME_KEY)),
                    ItemOrNullTok(GetItem(ls, COLOR_KEY)),
                    ItemOrNullTok(GetItem(ls, API_KEY_STORAGE_KEY)))

(* The file exportHistoryJSON offers for download *)
exportHistoryJSON(ls) ==
    LET item    == GetItem(ls, STORAGE_KEY)
        history == IF Truthy(item) THEN item[1] ELSE StringifyHistory(<<>>)
        parsed  == JSONParse(history)
    IN StringifyBundle(parsed.val, ItemOrNullTok(GetItem(ls, THEME_KEY)),
                       ItemOrNullTok(GetItem(ls, COLOR_KEY)), CURRENT_VERSION)

(* Array.prototype.sort((a, b) => b.timestamp - a.timestamp): stable *)
InsertDesc(t, e) ==
    LET k == Cardinality({i \in 1..Len(t) : t[i].timestamp >= e.timestamp})
    IN SubSeq(t, 1, k) \o <<e>> \o SubSeq(t, k + 1, Len(t))

RECURSIVE SortDesc(_)
SortDesc(s) == IF Len(s) <= 1 THEN s
               ELSE InsertDesc(SortDesc(SubSeq(s, 1, Len(s) - 1)), s[Len(s)])

IdsOf(h) == {h[i].id : i \in 1..Len(h)}

RECURSIVE Filter(_, _)
Filter(s, keep) == IF s = <<>> THEN <<>>
                   ELSE (IF Head(s).id \in keep THEN <<Head(s)>> ELSE <<>>) \o Filter(Tail(s), keep)

(* A merge that leaves out the final sort *)
MergeHistory_Unsorted(historyToMerge, current) ==
    Filter(historyToMerge, (IdsOf(historyToMerge) \ {Undefined, ""}) \ IdsOf(current))
    \o current

(* [...newEntries, ...current].sort(...) with newEntries the entries of    *)
(* the file that have an id no stored entry has                            *)
MergeHistory(historyToMerge, current) ==
    SortDesc(Filter(historyToMerge,
                    (IdsOf(historyToMerge) \ {Undefined, ""}) \ IdsOf(current))
             \o current)

(* An import that empties the history before it rejects the file *)
ImportParsed_ClearsFirst(ls, parsed) ==
    IF ~parsed.ok \/ (parsed.kind = "object" /\ ~parsed.val.hasHistory)
    THEN [success |-> FALSE, theme |-> Undefined, colorScheme |-> Undefined,
          ls |-> RemoveItem(ls, STORAGE_KEY)]
    ELSE [success |-> TRUE,
          theme |-> IF parsed.kind = "object" THEN parsed.val.theme ELSE Undefined,
          colorScheme |-> IF parsed.kind = "object" THEN parsed.val.colorScheme ELSE Undefined,
          ls |-> SetItem(ls, STORAGE_KEY,
                         StringifyHistory(MergeHistory(
                             IF parsed.kind = "array" THEN parsed.val ELSE parsed.val.history,
                             getHistory(ls))))]

(* The body of reader.onload once the file content is parsed *)
ImportParsed(ls, parsed) ==
    IF ~parsed.ok \/ (parsed.kind = "object" /\ ~parsed.val.hasHistory)
    THEN [success |-> FALSE, theme |-> Undefined, colorScheme |-> Undefined, ls |-> ls]
    ELSE [success |-> TRUE,
          theme |-> IF parsed.kind = "object" THEN parsed.val.theme ELSE Undefined,
          colorScheme |-> IF parsed.kind = "object" THEN parsed.val.colorScheme ELSE Undefined,
          ls |-> SetItem(ls, STORAGE_KEY,
                         StringifyHistory(MergeHistory(
                             IF parsed.kind = "array" THEN parsed.val ELSE parsed.val.history,
                             getHistory(ls))))]

(* importHistoryJSON(file): [success, theme, colorScheme, ls] *)
importHistoryJSON(ls, content) == ImportParsed(ls, JSONParse(content))

saveApiKey(ls, key) == SetItem(ls, API_KEY_STORAGE_KEY, key)

getStoredApiKey(ls) == GetItem(ls, API_KEY_STORAGE_KEY)

removeApiKey(ls) == RemoveItem(ls, API_KEY_STORAGE_KEY)

(* history.filter(h => h.type === 'grammar' || !h.type) *)
IsGrammarEntry(h) == h.type = "grammar" \/ h.type \in {Undefined, ""}

(* grammarHistory.reduce((sum, item) => sum + item.errorCount, 0) *)
RECURSIVE SumErrorCount(_)
SumErrorCount(h) == IF h = <<>> THEN 0 ELSE Head(h).errorCount + SumErrorCount(Tail(h))

(* A rounding that drops the fraction *)
MathRound_Truncating(num, den) == num \div den

(* Math.round(num / den) for num >= 0, den > 0: halves round up *)
MathRound(num, den) == (2 * num + den) \div (2 * den)

ZeroStats == [totalChecks |-> 0, totalErrors |-> 0, accuracyRate |-> 0, perfectRuns |-> 0]

StatsOf(grammarHistory) ==
    IF Len(grammarHistory) = 0 THEN ZeroStats
    ELSE [totalChecks  |-> Len(grammarHistory),
          totalErrors  |-> SumErrorCount(grammarHistory),
          accuracyRate |-> MathRound(100 * Len(SelectSeq(grammarHistory, LAMBDA e : e.isPerfect)),
                                     Len(grammarHistory)),
          perfectRuns  |-> Len(SelectSeq(grammarHistory, LAMBDA e : e.isPerfect))]

getStats(ls) == StatsOf(SelectSeq(getHistory(ls), IsGrammarEntry))

(* JSON.stringify of the snapshot {inputText, grammarResult, rewriteResult, *)
(* colorScheme}; a result is represented by the length of its text         *)
StringifyAppState(state) ==
    <<"{", "inputText", Num2Str(state.inputText),
      "grammarResult", IF state.grammarResult = Null THEN "null"
                       ELSE Num2Str(state.grammarResult[1].correctedSentence),
      "rewriteResult", IF state.rewriteResult = Null THEN "null"
                       ELSE Num2Str(state.rewriteResult[1].rewrittenText),
      "colorScheme", state.colorScheme, "}">>

ParseAppState(s) ==
    [inputText     |-> Str2Num(s[3]),
     grammarResult |-> IF s[5] = "null" THEN Null ELSE Some([correctedSentence |-> Str2Num(s[5])]),
     rewriteResult |-> IF s[7] = "null" THEN Null ELSE Some([rewrittenText |-> Str2Num(s[7])]),
     colorScheme   |-> s[9]]

saveAppState(ls, state) == SetItem(ls, STATE_KEY, StringifyAppState(state))

(* The version tag getAppState expects to find *)
ExpectedTag == Some(<<CURRENT_VERSION>>)

(* A version tag that has no snapshot dropped, removed before the tag is   *)
(* written                                                                 *)
getAppState_KeepsSnapshot(ls) ==
    IF GetItem(ls, VERSION_KEY) # ExpectedTag
    THEN [val |-> Null, ls |-> SetItem(ls, VERSION_KEY, <<CURRENT_VERSION>>)]
    ELSE LET item == GetItem(ls, STATE_KEY) IN
         [val |-> IF Truthy(item) THEN Some(ParseAppState(item[1])) ELSE Null, ls |-> ls]

(* getAppState(): [val, ls], val = Null standing for null *)
getAppState(ls) ==
    IF GetItem(ls, VERSION_KEY) # ExpectedTag
    THEN [val |-> Null,
          ls  |-> SetItem(RemoveItem(ls, STATE_KEY), VERSION_KEY, <<CURRENT_VERSION>>)]
    ELSE LET item == GetItem(ls, STATE_KEY) IN
         [val |-> IF Truthy(item) THEN Some(ParseAppState(item[1])) ELSE Null, ls |-> ls]

----------------------------------------------------------------------------
(* Inputs of the model *)

InputTexts == {0, 20}

Styles == {"Professional", "Casual"}

(* The style the user asks a full rewrite in *)
RewriteStyles == {"Professional"}

(* shuffled.slice(0, 4): the styles offered after a check *)
StyleChoices == {<<"Professional", "Casual">>}

(* The view the user navigates to (the settings view is entered by redirect) *)
Views == {"checker"}

Seg(isError, severity) == [isError |-> isError, severity |-> severity]

(* Responses of the remote model to a grammar check *)
Analyses == { [segments |-> <<Seg(FALSE, Undefined)>>, correctedSentence |-> 20],
              [segments |-> <<Seg(TRUE, "critical"), Seg(FALSE, Undefined)>>, correctedSentence |-> 75],
              [segments |-> <<Seg(TRUE, "suggestion"), Seg(TRUE, Undefined)>>, correctedSentence |-> 0] }

(* Responses of the remote model to a rewrite *)
RewrittenTexts == {30, 61}

ApiKeys == {<<"AIza-user-key">>}

(* Responses of the remote model in the App specification *)
AppAnalyses == {a \in Analyses : a.correctedSentence # 0}

(* process.env.API_KEY of the build: none *)
ENV_API_KEY == Null

(* The errors the remote call raises in the App specification *)
AppErrors == { NewError(<<"No response text from Gemini">>),
               NewError(<<"429">>),
               NewError(<<"MISSING_API_KEY", "PERMISSION_DENIED">>),
               [name |-> "Object", message |-> <<>>, code |-> 403] }

UUIDs == <<"u1", "u2", "u3", "u4", "u5", "u6", "u7", "u8">>

----------------------------------------------------------------------------
(* Calls of retryWithBackoff in flight *)

Calls == 1..MaxCalls

IdleCall == [handler |-> "idle", requestId |-> 0, text |-> 0, style |-> "none",
             retries |-> 0, initialDelay |-> 0, attempt |-> 0, pc |-> "idle",
             keyed |-> FALSE, invoked |-> 0, waits |-> <<>>,
             superseded |-> FALSE, newer |-> FALSE, invalidated |-> FALSE]

DoneCall == [IdleCall EXCEPT !.pc = "done"]

NoLast == [call |-> 0, handler |-> "idle", err |-> NoError, decision |-> "none",
           thrown |-> NoError, invoked |-> 0, waits |-> <<>>, retries |-> 0,
           initialDelay |-> 0, superseded |-> FALSE, newer |-> FALSE,
           invalidated |-> FALSE, active |-> FALSE]

(* A step that settles no call: nothing observed, no alert() dialog *)
(* What the storage call made in the last step gave back to its caller:   *)
(* the operation, the value it returned and whether it threw               *)
NoResult == [op |-> "none", arg |-> Null, val |-> Null, threw |-> FALSE]

NoEvent == last' = NoLast /\ alerts' = <<>> /\ returned' = NoResult

InFlight(c) == calls[c].pc \in {"fn", "delay"}

IsFree(c) == calls[c].pc = "idle" /\ \A d \in Calls : d < c => calls[d].pc # "idle"

(* getGenAIClient: getStoredApiKey() || process.env.API_KEY *)
HasApiKey(ls) == Truthy(getStoredApiKey(ls)) \/ Truthy(ENV_API_KEY)

(* retryWithBackoff(fn, retries, initialDelay) entered: first invocation of fn *)
StartCall(handler, requestId, text, style, retries, initialDelay, keyed) ==
    [IdleCall EXCEPT !.handler = handler, !.requestId = requestId, !.text = text,
                     !.style = style, !.retries = retries, !.initialDelay = initialDelay,
                     !.pc = "fn", !.keyed = keyed, !.invoked = 1]

QuickReset == [styles |-> <<>>, selectedStyle |-> "null", result |-> Null, isLoading |-> FALSE]

Observe(c, e, decision) ==
    [call |-> c, handler |-> calls[c].handler, err |-> e, decision |-> decision,
     thrown |-> Thrown(e, decision), invoked |-> calls[c].invoked,
     waits |-> IF decision = "retry"
               THEN Append(calls[c].waits, WaitTime(calls[c].initialDelay, calls[c].attempt + 1))
               ELSE calls[c].waits,
     retries |-> calls[c].retries, initialDelay |-> calls[c].initialDelay,
     superseded |-> calls[c].superseded, newer |-> calls[c].newer,
     invalidated |-> calls[c].invalidated,
     active |-> (activeRequestIdRef = calls[c].requestId)]

----------------------------------------------------------------------------
(* Dictionary lookups in flight *)

MaxLookups == 2

Lookups == 1..MaxLookups

IdleLookup == [pc |-> "idle", term |-> 0, requests |-> 0, later |-> FALSE]

----------------------------------------------------------------------------
(* State Persistence (Debounced): the effect on [inputText, grammarResult, *)
(* rewriteResult, colorScheme]                                             *)

DebounceDelay == 1000

(* The timer setTimeout returned, with the state its callback closes over *)
Scheduled(text, grammar, rewrite) ==
    Some([delay |-> DebounceDelay,
          state |-> [inputText |-> text, grammarResult |-> grammar,
                     rewriteResult |-> rewrite, colorScheme |-> "blue"]])

(* A variant whose cleanup leaves a pending timer in place *)
StatePersistence_KeepsPending ==
    saveTimer' = IF <<inputText', grammarResult', rewriteResult'>>
                      # <<inputText, grammarResult, rewriteResult>> /\ saveTimer = Null
                 THEN Scheduled(inputText', grammarResult', rewriteResult')
                 ELSE saveTimer

(* After a render that changed a dependency: clearTimeout(timer) of the    *)
(* previous run, then setTimeout(..., 1000) with the new values            *)
StatePersistence ==
    saveTimer' = IF <<inputText', grammarResult', rewriteResult'>>
                      # <<inputText, grammarResult, rewriteResult>>
                 THEN Scheduled(inputText', grammarResult', rewriteResult')
                 ELSE saveTimer

----------------------------------------------------------------------------
(* Time and navigation *)

Tick == /\ now < MaxNow
        /\ now' = now + 1
        /\ UNCHANGED <<appVars, calls, storeVars>>
        /\ NoEvent
        /\ UNCHANGED <<profileHistory, dictVars, saveTimer>>

SetInputText(t) ==
    /\ currentView \in {"checker", "menu"}
    /\ t # inputText
    /\ inputText' = t
    /\ UNCHANGED <<now, minted, activeRequestIdRef, grammarResult, rewriteResult, quickRewriteState,
                   loadingState, currentView, historyUpdateTrigger, calls,
                   storeVars>>
    /\ NoEvent
    /\ UNCHANGED <<profileHistory, dictVars>>
    /\ StatePersistence

SetCurrentView(v) ==
    /\ v # currentView
    /\ currentView' = v
    /\ UNCHANGED <<now, minted, activeRequestIdRef, inputText, grammarResult, rewriteResult,
                   quickRewriteState, loadingState, historyUpdateTrigger, calls,
                   storeVars>>
    /\ NoEvent
    /\ UNCHANGED <<profileHistory, dictVars>>
    /\ StatePersistence

----------------------------------------------------------------------------
(* Handlers of App.tsx: the synchronous part up to the first await *)

Responses == [analysis : Analyses, rewritten : RewrittenTexts, styles : StyleChoices]

AppResponses == [analysis : AppAnalyses, rewritten : {30}, styles : StyleChoices]

(* Every in-flight check or rewrite now has a newer request after it *)
MarkNewer(handler) ==
    [d \in Calls |->
        IF InFlight(d) /\ calls[d].handler \in {"checkGrammar", "rewrite"}
        THEN [calls[d] EXCEPT !.newer = TRUE,
                              !.superseded = @ \/ calls[d].handler = handler]
        ELSE calls[d]]

MarkInvalidated ==
    [d \in Calls |->
        IF InFlight(d) /\ calls[d].handler \in {"checkGrammar", "rewrite"}
        THEN [calls[d] EXCEPT !.invalidated = TRUE]
        ELSE calls[d]]

(* const requestId = Date.now() *)
NewRequestId == now

handleCheckGrammar(c) ==
    /\ currentView \in {"checker", "menu"}
    /\ IsFree(c)
    /\ inputText # 0
    /\ activeRequestIdRef' = NewRequestId
    /\ minted' = Max(minted, NewRequestId)
    /\ loadingState' = "LOADING"
    /\ grammarResult' = Null
    /\ rewriteResult' = Null
    /\ quickRewriteState' = QuickReset
    /\ calls' = [MarkNewer("checkGrammar") EXCEPT ![c] =
                    StartCall("checkGrammar", NewRequestId, inputText, "none",
                              DefaultRetries, DefaultInitialDelay, HasApiKey(localStorage))]
    /\ UNCHANGED <<now, inputText, currentView, historyUpdateTrigger, storeVars>>
    /\ NoEvent
    /\ UNCHANGED <<profileHistory, dictVars>>
    /\ StatePersistence

handleRewrite(c, style) ==
    /\ currentView \in {"checker", "menu"}
    /\ IsFree(c)
    /\ inputText # 0
    /\ activeRequestIdRef' = NewRequestId
    /\ minted' = Max(minted, NewRequestId)
    /\ loadingState' = "LOADING"
    /\ rewriteResult' = Null
    /\ grammarResult' = Null
    /\ quickRewriteState' = QuickReset
    /\ calls' = [MarkNewer("rewrite") EXCEPT ![c] =
                    StartCall("rewrite", NewRequestId, inputText, style,
                              DefaultRetries, DefaultInitialDelay, HasApiKey(localStorage))]
    /\ UNCHANGED <<now, inputText, currentView, historyUpdateTrigger, storeVars>>
    /\ NoEvent
    /\ UNCHANGED <<profileHistory, dictVars>>
    /\ StatePersistence

handleQuickRewrite(c, style) ==
    /\ currentView \in {"checker", "menu"}
    /\ IsFree(c)
    /\ grammarResult # Null
    /\ Includes(quickRewriteState.styles, style)
    /\ quickRewriteState' = [quickRewriteState EXCEPT !.selectedStyle = style, !.isLoading = TRUE]
    /\ calls' = [calls EXCEPT ![c] =
                    StartCall("quick", 0, grammarResult[1].correctedSentence, style,
                              DefaultRetries, DefaultInitialDelay, HasApiKey(localStorage))]
    /\ UNCHANGED <<now, minted, activeRequestIdRef, inputText, grammarResult, rewriteResult,
                   loadingState, currentView, historyUpdateTrigger, storeVars>>
    /\ NoEvent
    /\ UNCHANGED <<profileHistory, dictVars>>
    /\ StatePersistence

handleStopQuickRewrite ==
    /\ currentView \in {"checker", "menu"}
    /\ grammarResult # Null
    /\ quickRewriteState.isLoading
    /\ quickRewriteState' = [quickRewriteState EXCEPT !.isLoading = FALSE]
    /\ UNCHANGED <<now, minted, activeRequestIdRef, inputText, grammarResult, rewriteResult,
                   loadingState, currentView, historyUpdateTrigger, calls,
                   storeVars>>
    /\ NoEvent
    /\ UNCHANGED <<profileHistory, dictVars>>
    /\ StatePersistence

handleClear ==
    /\ currentView \in {"checker", "menu"}
    /\ activeRequestIdRef' = 0
    /\ UNCHANGED minted
    /\ inputText' = 0
    /\ grammarResult' = Null
    /\ rewriteResult' = Null
    /\ quickRewriteState' = QuickReset
    /\ loadingState' = "IDLE"
    /\ calls' = MarkInvalidated
    /\ UNCHANGED <<now, currentView, historyUpdateTrigger, storeVars>>
    /\ NoEvent
    /\ UNCHANGED <<profileHistory, dictVars>>
    /\ StatePersistence

handleStop ==
    /\ currentView \in {"checker", "menu"}
    /\ activeRequestIdRef' = 0
    /\ UNCHANGED minted
    /\ loadingState' = "IDLE"
    /\ calls' = MarkInvalidated
    /\ UNCHANGED <<now, inputText, grammarResult, rewriteResult, quickRewriteState,
                   currentView, historyUpdateTrigger, storeVars>>
    /\ NoEvent
    /\ UNCHANGED <<profileHistory, dictVars>>
    /\ StatePersistence

----------------------------------------------------------------------------
(* Handlers of App.tsx: the continuation after the awaited call *)

IsActive(c) == activeRequestIdRef = calls[c].requestId

ThenCheckGrammar(c, r) ==
    IF ~IsActive(c)
    THEN UNCHANGED <<appVars, storeVars>> /\ alerts' = <<>>
    ELSE /\ grammarResult' = Some([call |-> c, segments |-> r.analysis.segments,
                                   correctedSentence |-> r.analysis.correctedSentence])
         /\ loadingState' = "SUCCESS"
         /\ localStorage' = saveHistory(localStorage, calls[c].text, r.analysis,
                                        UUIDs[uuidCount + 1], now)
         /\ uuidCount' = uuidCount + 1
         /\ historyUpdateTrigger' = historyUpdateTrigger + 1
         /\ quickRewriteState' = [QuickReset EXCEPT !.styles = r.styles]
         /\ alerts' = <<>>
         /\ UNCHANGED <<minted, activeRequestIdRef, inputText, rewriteResult, currentView, exported>>

ThenRewrite(c, r) ==
    IF ~IsActive(c)
    THEN UNCHANGED <<appVars, storeVars>> /\ alerts' = <<>>
    ELSE LET result == [call |-> c, originalText |-> calls[c].text,
                        rewrittenText |-> r.rewritten, style |-> calls[c].style] IN
         /\ rewriteResult' = Some(result)
         /\ loadingState' = "SUCCESS"
         /\ localStorage' = saveRewriteHistory(localStorage, result, UUIDs[uuidCount + 1], now)
         /\ uuidCount' = uuidCount + 1
         /\ historyUpdateTrigger' = historyUpdateTrigger + 1
         /\ alerts' = <<>>
         /\ UNCHANGED <<minted, activeRequestIdRef, inputText, grammarResult, quickRewriteState,
                        currentView, exported>>

ThenQuickRewrite(c, r) ==
    /\ quickRewriteState' = [quickRewriteState EXCEPT !.result = Some(r.rewritten),
                                                      !.isLoading = FALSE]
    /\ alerts' = <<>>
    /\ UNCHANGED <<minted, activeRequestIdRef, inputText, grammarResult, rewriteResult, loadingState,
                   currentView, historyUpdateTrigger, storeVars>>

(* A variant whose catch block reports the error and leaves the loading    *)
(* state as it is                                                          *)
CatchRequest_KeepsLoading(c, error) ==
    IF ~IsActive(c)
    THEN UNCHANGED <<appVars, storeVars>> /\ alerts' = <<>>
    ELSE /\ alerts' = <<"generic">>
         /\ UNCHANGED <<appVars, storeVars>>

(* catch blocks of handleCheckGrammar and handleRewrite *)
CatchRequest(c, error) ==
    IF ~IsActive(c)
    THEN UNCHANGED <<appVars, storeVars>> /\ alerts' = <<>>
    ELSE /\ loadingState' = "ERROR"
         /\ IF Includes(HandlerMsg(error), "PERMISSION_DENIED")
            THEN /\ alerts' = <<"permissionDenied">>
                 /\ currentView' = "settings"
            ELSE /\ alerts' = <<"generic">>
                 /\ UNCHANGED currentView
         /\ UNCHANGED <<minted, activeRequestIdRef, inputText, grammarResult, rewriteResult,
                        quickRewriteState, historyUpdateTrigger, storeVars>>

CatchQuickRewrite(c, error) ==
    /\ quickRewriteState' = [quickRewriteState EXCEPT !.isLoading = FALSE]
    /\ IF Includes(HandlerMsg(error), "PERMISSION_DENIED")
       THEN /\ alerts' = <<"permissionDenied">>
            /\ currentView' = "settings"
       ELSE alerts' = <<>> /\ UNCHANGED currentView
    /\ UNCHANGED <<minted, activeRequestIdRef, inputText, grammarResult, rewriteResult, loadingState,
                   historyUpdateTrigger, storeVars>>

Then(c, r) == CASE calls[c].handler = "checkGrammar" -> ThenCheckGrammar(c, r)
                [] calls[c].handler = "rewrite"      -> ThenRewrite(c, r)
                [] calls[c].handler = "quick"        -> ThenQuickRewrite(c, r)
                [] OTHER -> UNCHANGED <<appVars, storeVars>> /\ alerts' = <<>>

Catch(c, error) == CASE calls[c].handler \in {"checkGrammar", "rewrite"} -> CatchRequest(c, error)
                     [] calls[c].handler = "quick" -> CatchQuickRewrite(c, error)
                     [] OTHER -> UNCHANGED <<appVars, storeVars>> /\ alerts' = <<>>

----------------------------------------------------------------------------
(* retryWithBackoff *)

(* A direct call retryWithBackoff(fn, retries, initialDelay) of an arbitrary fn *)
retryWithBackoff(c, retries, initialDelay) ==
    /\ c = 1
    /\ \A d \in Calls : ~InFlight(d)
    /\ IF 0 < retries
       THEN /\ calls' = [calls EXCEPT ![c] =
                            StartCall("none", 0, 0, "none", retries, initialDelay, TRUE)]
            /\ NoEvent
       ELSE /\ calls' = [calls EXCEPT ![c] = DoneCall]
            /\ last' = [NoLast EXCEPT !.call = c, !.handler = "none", !.decision = "maxRetries",
                                      !.thrown = NewError(<<"Max retries exceeded">>),
                                      !.initialDelay = initialDelay]
            /\ alerts' = <<>>
            /\ returned' = NoResult
    /\ UNCHANGED <<now, appVars, storeVars>>
    /\ UNCHANGED <<profileHistory, dictVars, saveTimer>>

(* return await fn() *)
FnResolves(c, r) ==
    /\ calls[c].pc = "fn"
    /\ calls[c].keyed
    /\ last' = Observe(c, NoError, "return")
    /\ returned' = NoResult
    /\ calls' = [calls EXCEPT ![c] = DoneCall]
    /\ Then(c, r)
    /\ UNCHANGED now
    /\ UNCHANGED <<profileHistory, dictVars>>
    /\ StatePersistence

(* catch (error) { ... } *)
FnRejects(c, e) ==
    /\ calls[c].pc = "fn"
    /\ ~calls[c].keyed => e = MissingKeyError
    /\ LET decision == RetryDecision(e, calls[c].attempt, calls[c].retries) IN
       /\ last' = Observe(c, e, decision)
       /\ returned' = NoResult
       /\ IF decision = "retry"
          THEN /\ calls' = [calls EXCEPT ![c].attempt = @ + 1,
                                         ![c].pc = "delay",
                                         ![c].waits = Append(@, WaitTime(calls[c].initialDelay,
                                                                         calls[c].attempt + 1))]
               /\ alerts' = <<>>
               /\ UNCHANGED <<appVars, storeVars>>
          ELSE /\ calls' = [calls EXCEPT ![c] = DoneCall]
               /\ Catch(c, Thrown(e, decision))
    /\ UNCHANGED now
    /\ UNCHANGED <<profileHistory, dictVars>>
    /\ StatePersistence

(* await delay(waitTime) is over: next iteration of the loop invokes fn *)
DelayElapses(c) ==
    /\ calls[c].pc = "delay"
    /\ calls' = [calls EXCEPT ![c].pc = "fn",
                              ![c].invoked = @ + 1,
                              ![c].keyed = (calls[c].handler = "none" \/ HasApiKey(localStorage))]
    /\ UNCHANGED <<now, appVars, storeVars>>
    /\ NoEvent
    /\ UNCHANGED <<profileHistory, dictVars, saveTimer>>

----------------------------------------------------------------------------
(* Operations of the storage service as the Profile page and the handlers  *)
(* call them                                                               *)

FileEntry(id, ts, type, errors) ==
    [EmptyEntry EXCEPT !.id = id, !.timestamp = ts, !.textSnippet = 12, !.fullText = 12,
                       !.errorCount = errors, !.isPerfect = (errors = 0), !.type = type]

(* Backup files offered to the import, besides the last export *)
LegacyEntries == <<FileEntry("x1", MaxNow + 2, Undefined, 1)>>

LegacyFile == StringifyHistory(LegacyEntries)

BundleEntries == <<FileEntry("x2", 2, "rewrite", 0), FileEntry("x1", 1, "grammar", 0)>>

BundleFile == StringifyBundle(BundleEntries, "dark", "rose", "1.0.2")

(* A file written by hand or by another program: a rewrite entry that is   *)
(* not perfect, a second entry with the same id, and an entry without id   *)
ForeignEntries == <<[FileEntry("x3", 2, "rewrite", 1) EXCEPT !.suggestionCount = 1],
                    FileEntry("x3", 1, "grammar", 0),
                    FileEntry(Undefined, 1, "grammar", 0)>>

ForeignFile == StringifyHistory(ForeignEntries)

GarbageFile == <<"not", "json">>

NoHistoryFile == <<"{", "theme", "dark", "}">>

Files == {LegacyFile, BundleFile, ForeignFile, GarbageFile, NoHistoryFile}

Terms == {5}

RewriteInputs == {<<61, "Casual">>}

SaveHistory(text, analysis) ==
    /\ uuidCount < MaxIds
    /\ Len(getHistory(localStorage)) < MaxHist
    /\ localStorage' = saveHistory(localStorage, text, analysis, UUIDs[uuidCount + 1], now)
    /\ uuidCount' = uuidCount + 1
    /\ UNCHANGED <<now, appVars, calls>>
    /\ exported' = Null
    /\ NoEvent
    /\ UNCHANGED <<profileHistory, dictVars, saveTimer>>

SaveRewriteHistory(text, style) ==
    /\ uuidCount < MaxIds
    /\ Len(getHistory(localStorage)) < MaxHist
    /\ localStorage' = saveRewriteHistory(localStorage, [rewrittenText |-> text, style |-> style],
                                          UUIDs[uuidCount + 1], now)
    /\ uuidCount' = uuidCount + 1
    /\ UNCHANGED <<now, appVars, calls>>
    /\ exported' = Null
    /\ NoEvent
    /\ UNCHANGED <<profileHistory, dictVars, saveTimer>>

SaveDictionaryHistory(term) ==
    /\ uuidCount < MaxIds
    /\ Len(getHistory(localStorage)) < MaxHist
    /\ localStorage' = saveDictionaryHistory(localStorage, term, UUIDs[uuidCount + 1], now)
    /\ uuidCount' = uuidCount + 1
    /\ UNCHANGED <<now, appVars, calls>>
    /\ exported' = Null
    /\ NoEvent
    /\ UNCHANGED <<profileHistory, dictVars, saveTimer>>

ClearHistory ==
    /\ localStorage' = clearHistory(localStorage)
    /\ UNCHANGED <<now, appVars, calls, uuidCount>>
    /\ exported' = Null
    /\ NoEvent
    /\ UNCHANGED <<profileHistory, dictVars, saveTimer>>

(* handleBackup *)
ExportHistory ==
    /\ exported' = Some(exportHistoryJSON(localStorage))
    /\ UNCHANGED <<now, appVars, calls, localStorage, uuidCount>>
    /\ NoEvent
    /\ UNCHANGED <<profileHistory, dictVars, saveTimer>>

(* handleFileChange: import, then re-apply the recovered theme *)
ImportHistory(content) ==
    LET result == importHistoryJSON(localStorage, content) IN
    /\ Len(getHistory(result.ls)) <= MaxHist
    /\ localStorage' = IF result.success /\ result.theme \notin {Undefined, "null", ""}
                       THEN SetItem(result.ls, THEME_KEY, <<result.theme>>)
                       ELSE result.ls
    /\ UNCHANGED <<now, appVars, calls, uuidCount>>
    /\ exported' = Null
    /\ last' = NoLast
    /\ alerts' = <<>>
    /\ returned' = [op |-> "importHistoryJSON", arg |-> Some(content),
                    val |-> Some([success |-> result.success, theme |-> result.theme,
                                  colorScheme |-> result.colorScheme]),
                    threw |-> FALSE]
    /\ UNCHANGED <<profileHistory, dictVars, saveTimer>>

SaveApiKey(key) ==
    /\ localStorage' = saveApiKey(localStorage, key)
    /\ UNCHANGED <<now, appVars, calls, uuidCount>>
    /\ exported' = Null
    /\ NoEvent
    /\ UNCHANGED <<profileHistory, dictVars, saveTimer>>

RemoveApiKey ==
    /\ localStorage' = removeApiKey(localStorage)
    /\ UNCHANGED <<now, appVars, calls, uuidCount>>
    /\ exported' = Null
    /\ NoEvent
    /\ UNCHANGED <<profileHistory, dictVars, saveTimer>>

(* Profile.loadData: setHistory(getHistory()); setStats(getStats()) *)
LoadData ==
    /\ profileHistory' = getHistory(localStorage)
    /\ UNCHANGED <<now, appVars, calls, storeVars, dictVars, saveTimer>>
    /\ last' = NoLast
    /\ alerts' = <<>>
    /\ returned' = [op |-> "getStats", arg |-> Null,
                    val |-> Some(getStats(localStorage)), threw |-> FALSE]

(* The snapshots the debounced effect of App saves *)
AppStates == {[inputText |-> 20, grammarResult |-> Null, rewriteResult |-> Null,
               colorScheme |-> "blue"]}

(* The snapshot and version tag left by the release before this one *)
OldTag == Some(<<"1.0.2">>)

OldSnapshot == Some(StringifyAppState([inputText |-> 0, grammarResult |-> Null,
                                      rewriteResult |-> Null, colorScheme |-> "blue"]))

SaveAppState(state) ==
    /\ localStorage' = saveAppState(localStorage, state)
    /\ UNCHANGED <<now, appVars, calls, uuidCount>>
    /\ exported' = Null
    /\ NoEvent
    /\ UNCHANGED <<profileHistory, dictVars, saveTimer>>

GetAppState ==
    /\ localStorage' = getAppState(localStorage).ls
    /\ UNCHANGED <<now, appVars, calls, uuidCount>>
    /\ exported' = Null
    /\ last' = NoLast
    /\ alerts' = <<>>
    /\ returned' = [op |-> "getAppState", arg |-> GetItem(localStorage, VERSION_KEY),
                    val |-> getAppState(localStorage).val, threw |-> FALSE]
    /\ UNCHANGED <<profileHistory, dictVars, saveTimer>>

----------------------------------------------------------------------------
(* Specifications *)

Init ==
    /\ now = 1
    /\ activeRequestIdRef = 0
    /\ minted = 0
    /\ inputText = 0
    /\ grammarResult = Null
    /\ rewriteResult = Null
    /\ quickRewriteState = QuickReset
    /\ loadingState = "IDLE"
    /\ currentView = "checker"
    /\ historyUpdateTrigger = 0
    /\ alerts = <<>>
    /\ calls = [c \in Calls |-> IdleCall]
    /\ \E key \in {Null} \cup {Some(k) : k \in ApiKeys}, upgraded \in BOOLEAN :
          localStorage = [k \in Keys |->
                            CASE k = API_KEY_STORAGE_KEY -> key
                              [] k = THEME_KEY -> Some(<<"light">>)
                              [] k = COLOR_KEY -> Some(<<"blue">>)
                              [] k = VERSION_KEY -> IF upgraded THEN OldTag ELSE Null
                              [] k = STATE_KEY -> IF upgraded THEN OldSnapshot ELSE Null
                              [] OTHER -> Null]
    /\ uuidCount = 0
    /\ exported = Null
    /\ last = NoLast
    /\ returned = NoResult
    /\ profileHistory = <<>>
    /\ isDictionaryOpen = FALSE
    /\ dictionaryTerm = 0
    /\ dictionaryData = Null
    /\ dictionaryLoading = FALSE
    /\ dictionaryError = Null
    /\ lookups = [k \in Lookups |-> IdleLookup]
    /\ saveTimer = Scheduled(0, Null, Null)

(* The application: coordinator, retry policy and the appends they cause *)
Next ==
    \/ Tick
    \/ \E t \in InputTexts : SetInputText(t)
    \/ \E v \in Views : SetCurrentView(v)
    \/ \E c \in Calls : handleCheckGrammar(c)
    \/ \E c \in Calls, style \in RewriteStyles : handleRewrite(c, style)
    \/ \E c \in Calls, style \in Styles : handleQuickRewrite(c, style)
    \/ handleStopQuickRewrite
    \/ handleClear
    \/ handleStop
    \/ \E c \in Calls, r \in AppResponses : FnResolves(c, r)
    \/ \E c \in Calls, e \in AppErrors \cup {MissingKeyError} : FnRejects(c, e)
    \/ \E c \in Calls : DelayElapses(c)

Spec == Init /\ [][Next]_vars

(* The retry policy alone, on an arbitrary operation *)
NextRetry ==
    \/ \E c \in Calls, retries \in 0..MaxRetries, initialDelay \in {500, DefaultInitialDelay} :
          retryWithBackoff(c, retries, initialDelay)
    \/ \E c \in Calls, r \in Responses : FnResolves(c, r)
    \/ \E c \in Calls, e \in Errors : FnRejects(c, e)
    \/ \E c \in Calls : DelayElapses(c)

SpecRetry == Init /\ [][NextRetry]_vars

(* The store alone, under any sequence of its operations *)
NextStore ==
    \/ Tick
    \/ \E a \in Analyses : SaveHistory(20, a)
    \/ \E r \in RewriteInputs : SaveRewriteHistory(r[1], r[2])
    \/ \E term \in Terms : SaveDictionaryHistory(term)
    \/ ClearHistory
    \/ ExportHistory
    \/ \E f \in Files \cup {exported[1] : i \in 1..Len(exported)} : ImportHistory(f)
    \/ \E key \in ApiKeys : SaveApiKey(key)
    \/ RemoveApiKey
    \/ \E state \in AppStates : SaveAppState(state)
    \/ GetAppState

SpecStore == Init /\ [][NextStore]_vars

(* getStats alone, on the histories of up to MaxStatsLen entries drawn     *)
(* from one entry of each kind                                             *)
MaxStatsLen == 3

StatsEntries ==
    {[EmptyEntry EXCEPT !.textSnippet = 20, !.fullText = 20, !.isPerfect = TRUE, !.type = "grammar"],
     [EmptyEntry EXCEPT !.textSnippet = 20, !.fullText = 20, !.errorCount = 2,
                        !.suggestionCount = 1, !.type = "grammar"],
     [EmptyEntry EXCEPT !.textSnippet = 12, !.fullText = 12, !.errorCount = 1],
     [EmptyEntry EXCEPT !.textSnippet = 61, !.fullText = 61, !.isPerfect = TRUE,
                        !.type = "rewrite", !.rewriteStyle = "Casual"],
     [EmptyEntry EXCEPT !.textSnippet = 5, !.fullText = 5, !.isPerfect = TRUE,
                        !.type = "dictionary"]}

(* Entry i of a stored history of n entries: id and time by position *)
Stamped(h) == [i \in 1..Len(h) |-> [h[i] EXCEPT !.id = UUIDs[Len(h) - i + 1],
                                                 !.timestamp = Len(h) - i + 1]]

StatsHistories == UNION {[1..n -> StatsEntries] : n \in 0..MaxStatsLen}

InitStats ==
    /\ now = MaxStatsLen + 1
    /\ activeRequestIdRef = 0
    /\ minted = 0
    /\ inputText = 0
    /\ grammarResult = Null
    /\ rewriteResult = Null
    /\ quickRewriteState = QuickReset
    /\ loadingState = "IDLE"
    /\ currentView = "profile"
    /\ historyUpdateTrigger = 0
    /\ alerts = <<>>
    /\ calls = [c \in Calls |-> IdleCall]
    /\ \E h \in StatsHistories :
          localStorage = [k \in Keys |->
                            CASE k = STORAGE_KEY -> IF h = <<>> THEN Null
                                                    ELSE Some(StringifyHistory(Stamped(h)))
                              [] k = THEME_KEY -> Some(<<"light">>)
                              [] k = COLOR_KEY -> Some(<<"blue">>)
                              [] k = VERSION_KEY -> ExpectedTag
                              [] OTHER -> Null]
    /\ uuidCount = MaxStatsLen
    /\ exported = Null
    /\ last = NoLast
    /\ returned = NoResult
    /\ profileHistory = <<>>
    /\ isDictionaryOpen = FALSE
    /\ dictionaryTerm = 0
    /\ dictionaryData = Null
    /\ dictionaryLoading = FALSE
    /\ dictionaryError = Null
    /\ lookups = [k \in Lookups |-> IdleLookup]
    /\ saveTimer = Scheduled(0, Null, Null)

NextStats == LoadData

SpecStats == InitStats /\ [][NextStats]_vars

TypeOK == /\ now \in 1..MaxNow
          /\ loadingState \in {"IDLE", "LOADING", "SUCCESS", "ERROR"}
          /\ currentView \in {"checker", "menu", "profile", "settings"}
          /\ last.call \in 0..MaxCalls

----------------------------------------------------------------------------
(* Steps of a call, as seen in a pair of states *)

IsRequest(c) == calls[c].handler \in {"checkGrammar", "rewrite"}

(* handleCheckGrammar or handleRewrite starts call c in this step *)
Begins(c) == calls[c].pc = "idle" /\ calls'[c].pc = "fn" /\ calls'[c].requestId # 0

(* retryWithBackoff of call c returns or throws in this step, and the      *)
(* continuation of its handler runs                                        *)
Settles(c) == calls[c].pc = "fn" /\ calls'[c].pc = "done"

Succeeds(c) == Settles(c) /\ last'.decision = "return"

Fails(c) == Settles(c) /\ last'.decision \in {"throwSame", "throwPermission", "exhausted"}

(* The classes of the retry policy, by the patterns an error matches *)
AuthMissing(e) == IsMissingKey(ExtractMsg(e))

PermissionDenied(e) == IsPermissionDenied(ExtractMsg(e))

RateLimited(e) == IsRateLimit(ExtractMsg(e))

ServiceUnavailable(e) == IsServerOverload(ExtractMsg(e))

ClassOf(e) == IF AuthMissing(e) THEN "AuthMissing"
              ELSE IF PermissionDenied(e) THEN "PermissionDenied"
              ELSE IF RateLimited(e) THEN "RateLimited"
              ELSE IF ServiceUnavailable(e) THEN "ServiceUnavailable"
              ELSE "Other"

Failed == last.err # NoError

----------------------------------------------------------------------------
(* Request coordinator *)

(* C1: when a request A1 (grammar check or rewrite) succeeds after a later *)
(* request A2 of the same class has started, A1's continuation commits     *)
(* nothing to the visible state: grammarResult, rewriteResult,             *)
(* loadingState and quickRewriteState are left as they are.                *)
C1_OnlyLatestCommits ==
    [][\A c \in Calls :
          (IsRequest(c) /\ Succeeds(c) /\ calls[c].superseded)
          => UNCHANGED <<grammarResult, rewriteResult, loadingState, quickRewriteState>>]_vars

(* C2: once handleClear or handleStop ran while a request was in flight,   *)
(* the continuation of that request has no effect, whether its call        *)
(* succeeds or fails: results, quick-rewrite state, loadingState,          *)
(* currentView and the stored history are unchanged and no alert is shown. *)
C2_InvalidatedIsInert ==
    [][\A c \in Calls :
          (IsRequest(c) /\ Settles(c) /\ calls[c].invalidated)
          => /\ UNCHANGED <<grammarResult, rewriteResult, quickRewriteState, loadingState,
                            currentView, localStorage>>
             /\ alerts' = <<>>]_vars

(* C3: when a request A1 fails after a newer request A2 has begun, the     *)
(* failure surfaces nothing: loadingState and currentView are unchanged    *)
(* and no alert is shown.                                                  *)
C3_SupersededFailureIsSilent ==
    [][\A c \in Calls :
          (IsRequest(c) /\ Fails(c) /\ calls[c].newer)
          => /\ UNCHANGED <<loadingState, currentView>>
             /\ alerts' = <<>>]_vars

(* C4: every request that begins receives a token strictly greater than    *)
(* every token minted before it (hence different from the sentinel 0),     *)
(* also when two requests begin in the same millisecond.                   *)
C4_TokensStrictlyIncrease ==
    [][\A c \in Calls : Begins(c) => calls'[c].requestId > minted]_vars

----------------------------------------------------------------------------
(* Retry policy *)

(* C5: the operation is invoked at most `retries` times; a retryable       *)
(* failure of the last allowed attempt is never followed by a wait or a    *)
(* further attempt: the call ends there, raising the error of that         *)
(* attempt, after exactly retries - 1 waits.                               *)
C5_AtMostMaxAttempts ==
    /\ \A c \in Calls : calls[c].invoked <= calls[c].retries
    /\ last.invoked <= last.retries
    /\ last.decision = "retry" => last.invoked < last.retries
    /\ (Failed /\ ClassOf(last.err) \in {"RateLimited", "ServiceUnavailable"}
        /\ last.invoked = last.retries)
       => /\ last.decision = "exhausted"
          /\ last.thrown = last.err
          /\ calls[last.call].pc = "done"
          /\ Len(last.waits) = last.retries - 1

C5_Witness ==
    /\ last.decision = "exhausted"
    /\ last.retries = DefaultRetries
    /\ last.invoked = DefaultRetries
    /\ last.thrown = last.err

(* C6: the k-th wait of a call is initialDelay * 2^(k-1); there is one     *)
(* wait per failed attempt that was retried, so a first-attempt success    *)
(* returns with no wait and a success on the third attempt returns after   *)
(* waits of 2000 and 4000 ms.                                              *)
C6_ExponentialBackoff ==
    /\ \A k \in 1..Len(last.waits) : last.waits[k] = last.initialDelay * Pow2(k - 1)
    /\ last.decision = "retry" => Len(last.waits) = last.invoked
    /\ last.decision = "return" => Len(last.waits) = last.invoked - 1
    /\ (last.decision = "return" /\ last.invoked = 3 /\ last.initialDelay = 2000)
       => last.waits = <<2000, 4000>>

C6_Witness ==
    /\ last.decision = "return"
    /\ last.invoked = 3
    /\ last.waits = <<2000, 4000>>

(* C7: an attempt failing with an AuthMissing or Other error ends the call *)
(* at once with that same error: no wait is added and the operation is not *)
(* invoked again, whatever the number of the attempt.                      *)
C7_TerminalErrorsFailImmediately ==
    (Failed /\ ClassOf(last.err) \in {"AuthMissing", "Other"})
    => /\ last.thrown = last.err
       /\ calls[last.call].pc = "done"
       /\ Len(last.waits) = last.invoked - 1

C7_Witness ==
    /\ Failed
    /\ ClassOf(last.err) = "AuthMissing"
    /\ last.invoked = 2
    /\ last.thrown = last.err

(* C8: a PermissionDenied failure ends the call at once with the distinct  *)
(* PERMISSION_DENIED error, so that the handler of a still-active request  *)
(* sets loadingState to ERROR and currentView to settings; every other     *)
(* terminal error leaves currentView unchanged.                            *)
C8_OnlyPermissionDeniedRedirects ==
    [][\A c \in Calls :
          (IsRequest(c) /\ calls[c].pc = "fn" /\ calls'[c].pc # "fn" /\ last'.err # NoError)
          => /\ ClassOf(last'.err) = "PermissionDenied"
                => /\ Settles(c)
                   /\ last'.thrown = PermissionError
                   /\ IsActive(c) => loadingState' = "ERROR" /\ currentView' = "settings"
             /\ (Settles(c) /\ ClassOf(last'.err) # "PermissionDenied")
                => UNCHANGED currentView]_vars

(* C9: the decision taken on a failure is the one of the first class the   *)
(* error matches in the order auth, permission, rate limit, overload,      *)
(* other: same error rethrown for AuthMissing and Other, PERMISSION_DENIED *)
(* raised for PermissionDenied, retry (or exhaustion) for the other two.   *)
C9_ClassificationPrecedence ==
    Failed =>
       CASE ClassOf(last.err) \in {"AuthMissing", "Other"} ->
               last.decision = "throwSame" /\ last.thrown = last.err
         [] ClassOf(last.err) = "PermissionDenied" ->
               last.decision = "throwPermission" /\ last.thrown = PermissionError
         [] OTHER ->
               last.decision \in {"retry", "exhausted"}

C9_Witness ==
    /\ Failed
    /\ RateLimited(last.err)
    /\ PermissionDenied(last.err)
    /\ ~AuthMissing(last.err)
    /\ last.decision = "throwPermission"

----------------------------------------------------------------------------
(* Durable state store *)

(* C10: importing the bundle exportHistoryJSON produces from the present   *)
(* store leaves the stored history as it is: same entries, same order.     *)
C10_ExportImportRoundTrip ==
    getHistory(importHistoryJSON(localStorage, exportHistoryJSON(localStorage)).ls)
       = getHistory(localStorage)

----------------------------------------------------------------------------
(* Import of a backup *)

Range(h) == {h[i] : i \in 1..Len(h)}

Occurrences(h, e) == Cardinality({i \in 1..Len(h) : h[i] = e})

NoDuplicateIds(h) == \A i, j \in 1..Len(h) : i # j => h[i].id # h[j].id

IsSortedDesc(h) == \A i, j \in 1..Len(h) : i < j => h[i].timestamp >= h[j].timestamp

(* The files that hold a history, and the entries written into each *)
HistoryFiles == {LegacyFile, BundleFile, ForeignFile}

InvalidFiles == {GarbageFile, NoHistoryFile}

FileEntries(f) == CASE f = LegacyFile -> LegacyEntries
                    [] f = BundleFile -> BundleEntries
                    [] f = ForeignFile -> ForeignEntries

ImportedLast(f) == returned.op = "importHistoryJSON" /\ returned.arg = Some(f)

(* C11: importing a file a second time right after the first import leaves *)
(* the stored history exactly as the first import left it, and that        *)
(* history holds no id twice.                                              *)
C11_ImportTwiceNoDuplicates ==
    \A f \in HistoryFiles :
       LET first  == importHistoryJSON(localStorage, f).ls
           second == importHistoryJSON(first, f).ls
       IN /\ getHistory(second) = getHistory(first)
          /\ NoDuplicateIds(getHistory(second))

(* C12 as stated: a successful import stores, in descending timestamp      *)
(* order, the stored entries plus every incoming entry whose id no stored  *)
(* entry has; both file shapes are accepted and the full shape hands its   *)
(* theme and colorScheme back.                                             *)
C12_ImportStoresUnion ==
    \A f \in HistoryFiles :
       LET r   == importHistoryJSON(localStorage, f)
           h   == getHistory(r.ls)
           cur == getHistory(localStorage)
           inc == FileEntries(f)
       IN /\ r.success
          /\ IsSortedDesc(h)
          /\ \A e \in Range(h) \cup Range(cur) \cup Range(inc) :
                Occurrences(h, e) = Occurrences(cur, e)
                                    + (IF e.id \notin IdsOf(cur) THEN Occurrences(inc, e) ELSE 0)
          /\ f = BundleFile => r.theme = "dark" /\ r.colorScheme = "rose"

(* C12 amended: as above, but an incoming entry is accepted only if it     *)
(* carries a non-empty id that no stored entry has; entries without id are *)
(* dropped.                                                                *)
C12_ImportStoresUnionOfIdentified ==
    \A f \in HistoryFiles :
       LET r   == importHistoryJSON(localStorage, f)
           h   == getHistory(r.ls)
           cur == getHistory(localStorage)
           inc == FileEntries(f)
       IN /\ r.success
          /\ IsSortedDesc(h)
          /\ \A e \in Range(h) \cup Range(cur) \cup Range(inc) :
                Occurrences(h, e) = Occurrences(cur, e)
                                    + (IF e.id \notin IdsOf(cur) \cup {Undefined, ""}
                                       THEN Occurrences(inc, e) ELSE 0)
          /\ f = BundleFile => r.theme = "dark" /\ r.colorScheme = "rose"
          /\ f # BundleFile => r.theme = Undefined /\ r.colorScheme = Undefined

(* An import of the full bundle has just merged a new entry into a history *)
(* that already held one of the bundle's ids and an entry of its own       *)
C12_Witness ==
    /\ ImportedLast(BundleFile)
    /\ returned.val[1].success
    /\ returned.val[1].theme = "dark"
    /\ {"x1", "x2"} \subseteq IdsOf(getHistory(localStorage))
    /\ Len(getHistory(localStorage)) = 2
    /\ getHistory(localStorage)[1].id = "x1"
    /\ getHistory(localStorage)[1].timestamp = MaxNow + 2

(* C13: on a file that is not JSON, or is JSON without a history array,    *)
(* importHistoryJSON resolves success = false and throws nothing, and no   *)
(* stored record differs from before the call.                             *)
C13_MalformedImportChangesNothing ==
    /\ \A f \in InvalidFiles :
          LET r == importHistoryJSON(localStorage, f)
          IN ~r.success /\ r.ls = localStorage
    /\ \A f \in Files : ~importHistoryJSON(localStorage, f).success
                        => importHistoryJSON(localStorage, f).ls = localStorage
    /\ \A f \in InvalidFiles :
          ImportedLast(f) => ~returned.val[1].success /\ ~returned.threw

C13_Witness ==
    /\ ImportedLast(GarbageFile)
    /\ ~returned.val[1].success
    /\ ~returned.threw
    /\ getHistory(localStorage) # <<>>
    /\ getStoredApiKey(localStorage) # Null

----------------------------------------------------------------------------
(* Snapshot and version tag *)

OtherRecordsUnchanged(keys) == \A k \in Keys \ keys : localStorage'[k] = localStorage[k]

(* C14: a call of getAppState that finds a version tag other than the      *)
(* expected one (or none) returns null, removes the snapshot and stores    *)
(* the expected tag, leaving the history, the credential and every other   *)
(* record alone; a call that finds the expected tag changes nothing; after *)
(* either, the stored tag is the expected one.                             *)
C14_VersionMismatchClearsSnapshotOnly ==
    [][returned'.op = "getAppState"
       => /\ GetItem(localStorage', VERSION_KEY) = ExpectedTag
          /\ GetItem(localStorage, VERSION_KEY) # ExpectedTag
             => /\ returned'.val = Null
                /\ GetItem(localStorage', STATE_KEY) = Null
                /\ OtherRecordsUnchanged({STATE_KEY, VERSION_KEY})
          /\ GetItem(localStorage, VERSION_KEY) = ExpectedTag
             => UNCHANGED localStorage]_vars

(* getAppState has just found the tag of the former release, next to a     *)
(* history and a credential                                                *)
C14_Witness ==
    /\ returned.op = "getAppState"
    /\ returned.arg = OldTag
    /\ returned.val = Null
    /\ GetItem(localStorage, STATE_KEY) = Null
    /\ GetItem(localStorage, VERSION_KEY) = ExpectedTag
    /\ getHistory(localStorage) # <<>>
    /\ getStoredApiKey(localStorage) # Null

----------------------------------------------------------------------------
(* Statistics *)

(* The positions of the grammar-category entries of a history: those of    *)
(* type grammar and those written before entries had a type                *)
GrammarPositions(h) == {i \in 1..Len(h) : h[i].type \notin {"rewrite", "dictionary"}}

RECURSIVE SumOver(_, _)
SumOver(h, S) == IF S = {} THEN 0
                 ELSE LET i == CHOOSE j \in S : TRUE
                      IN h[i].errorCount + SumOver(h, S \ {i})

(* C15: the statistics count the grammar-category entries only:            *)
(* totalChecks is their number, totalErrors the sum of their errorCount,   *)
(* perfectRuns the number of perfect ones, accuracyRate the nearest        *)
(* integer to 100 * perfectRuns / totalChecks (halves up); all four are 0  *)
(* when there is no such entry, and 1 perfect entry out of 3 gives 33.     *)
C15_StatsOverGrammarEntries ==
    returned.op = "getStats" =>
       LET h     == getHistory(localStorage)
           G     == GrammarPositions(h)
           t     == Cardinality(G)
           p     == Cardinality({i \in G : h[i].isPerfect})
           stats == returned.val[1]
       IN /\ stats.totalChecks = t
          /\ stats.totalErrors = SumOver(h, G)
          /\ stats.perfectRuns = p
          /\ t = 0 => stats.accuracyRate = 0
          /\ t > 0 => /\ 2 * t * stats.accuracyRate <= 200 * p + t
                      /\ 200 * p + t < 2 * t * (stats.accuracyRate + 1)
          /\ (t = 3 /\ p = 1) => stats.accuracyRate = 33

C15_Witness ==
    /\ returned.op = "getStats"
    /\ Len(getHistory(localStorage)) = 3
    /\ returned.val[1].totalChecks = 3
    /\ returned.val[1].perfectRuns = 1
    /\ returned.val[1].accuracyRate = 33
    /\ returned.val[1].totalErrors = 3

----------------------------------------------------------------------------
(* Invariants of the stored history *)

(* C16: no two entries of the stored history have the same id. *)
C16_IdsUnique == NoDuplicateIds(getHistory(localStorage))

(* C17: in the stored history a grammar entry is perfect exactly when both *)
(* its counts are 0, a rewrite or dictionary entry is always perfect, and  *)
(* no count is negative.                                                   *)
C17_IsPerfectConsistent ==
    \A e \in Range(getHistory(localStorage)) :
       /\ e.type \in {"rewrite", "dictionary"} => e.isPerfect
       /\ e.type \notin {"rewrite", "dictionary"}
          => (e.isPerfect <=> (e.errorCount = 0 /\ e.suggestionCount = 0))
       /\ e.errorCount >= 0
       /\ e.suggestionCount >= 0

(* C18: a step of the store that is not clearHistory keeps every entry of  *)
(* the stored history in the stored history, with all its fields as they   *)
(* were.                                                                   *)
C18_EntriesKeptUnlessCleared ==
    [][ClearHistory
       \/ \A e \in Range(getHistory(localStorage)) :
             e \in Range(getHistory(localStorage'))]_vars

(* An import has merged a file into a history holding an appended entry,   *)
(* and the appended entry is still there.                                  *)
C18_Witness ==
    /\ returned.op = "importHistoryJSON"
    /\ returned.val[1].success
    /\ Len(getHistory(localStorage)) = 2
    /\ \E i \in 1..2 : /\ getHistory(localStorage)[i].id = UUIDs[1]
                        /\ getHistory(localStorage)[i].type = "dictionary"
    /\ \E i \in 1..2 : getHistory(localStorage)[i].id = "x1"
----------------------------------------------------------------------------
(* The credential *)

Credentials == {Null} \cup {Some(key) : key \in ApiKeys}

WithCredential(ls, c) == [ls EXCEPT ![API_KEY_STORAGE_KEY] = c]

OtherRecords(ls) == [k \in Keys \ {API_KEY_STORAGE_KEY} |-> ls[k]]

(* What an import gives back and what it leaves in the other records *)
ImportOutcome(r) ==
    [success |-> r.success, theme |-> r.theme, colorScheme |-> r.colorScheme,
     others |-> OtherRecords(r.ls)]

(* Every operation on the history, the snapshot and the version tag gives  *)
(* the same result and the same other records on ls and on ls2             *)
SameOutcome(ls, ls2) ==
    /\ getHistory(ls2) = getHistory(ls)
    /\ getStats(ls2) = getStats(ls)
    /\ exportHistoryJSON(ls2) = exportHistoryJSON(ls)
    /\ getAppState(ls2).val = getAppState(ls).val
    /\ OtherRecords(getAppState(ls2).ls) = OtherRecords(getAppState(ls).ls)
    /\ \A state \in AppStates :
          OtherRecords(saveAppState(ls2, state)) = OtherRecords(saveAppState(ls, state))
    /\ OtherRecords(clearHistory(ls2)) = OtherRecords(clearHistory(ls))
    /\ \A term \in Terms :
          OtherRecords(saveDictionaryHistory(ls2, term, UUIDs[MaxIds], MaxNow))
             = OtherRecords(saveDictionaryHistory(ls, term, UUIDs[MaxIds], MaxNow))
    /\ \A f \in Files :
          ImportOutcome(importHistoryJSON(ls2, f)) = ImportOutcome(importHistoryJSON(ls, f))

CredentialNotRead ==
    \A c \in Credentials \ {getStoredApiKey(localStorage)} :
       SameOutcome(localStorage, WithCredential(localStorage, c))

ExportOmitsCredential ==
    exported # Null => \A key \in ApiKeys : \A i \in 1..Len(key) : ~Includes(exported[1], key[i])

(* C19: saveApiKey and removeApiKey change the credential record and no    *)
(* other record; every other operation of the store leaves the credential  *)
(* as it was and gives the same results whatever the credential is; the    *)
(* exported file never contains the credential.                            *)
C19_CredentialIndependent ==
    /\ [](CredentialNotRead /\ ExportOmitsCredential)
    /\ [][/\ (\E key \in ApiKeys : SaveApiKey(key)) \/ RemoveApiKey
             => OtherRecordsUnchanged({API_KEY_STORAGE_KEY})
          /\ ~((\E key \in ApiKeys : SaveApiKey(key)) \/ RemoveApiKey)
             => getStoredApiKey(localStorage') = getStoredApiKey(localStorage)]_vars

(* A file has been exported while a credential and a history were stored.  *)
C19_Witness ==
    /\ exported # Null
    /\ getStoredApiKey(localStorage) \in {Some(key) : key \in ApiKeys}
    /\ getHistory(localStorage) # <<>>
    /\ exported[1] = exportHistoryJSON(WithCredential(localStorage, Null))
----------------------------------------------------------------------------
(* Storage failures *)

(* How localStorage answers during a call: "none" is normal operation,     *)
(* "quota" makes setItem throw QuotaExceededError, "denied" makes every    *)
(* access to the storage throw SecurityError                               *)
Faults == {"none", "quota", "denied"}

(* The outcome of a storage call: the storage it leaves and whether an     *)
(* exception leaves the function                                           *)
TrySetItem(ls, k, v, fault) ==
    IF fault = "none" THEN [ls |-> SetItem(ls, k, v), threw |-> FALSE]
    ELSE [ls |-> ls, threw |-> TRUE]

TryRemoveItem(ls, k, fault) ==
    IF fault = "denied" THEN [ls |-> ls, threw |-> TRUE]
    ELSE [ls |-> RemoveItem(ls, k), threw |-> FALSE]

(* try { ... } catch (error) { console.error(...) } *)
Caught(outcome) == [outcome EXCEPT !.threw = FALSE]

(* The three appends end in one setItem of the record ls2 holds *)
TryAppend(ls, ls2, fault) ==
    Caught(TrySetItem(ls, STORAGE_KEY, GetItem(ls2, STORAGE_KEY)[1], fault))

TryClearHistory(ls, fault) == TryRemoveItem(ls, STORAGE_KEY, fault)

(* importHistoryJSON: a file that is not a backup resolves before the      *)
(* setItem; a failing setItem is caught and resolves {success: false}      *)
TryImportParsed(ls, r, fault) ==
    IF ~r.success THEN [ls |-> ls, threw |-> FALSE, success |-> FALSE]
    ELSE [ls      |-> Caught(TrySetItem(ls, STORAGE_KEY, GetItem(r.ls, STORAGE_KEY)[1], fault)).ls,
          threw   |-> FALSE,
          success |-> fault = "none"]

TryImportHistoryJSON(ls, content, fault) ==
    TryImportParsed(ls, importHistoryJSON(ls, content), fault)

TrySaveAppState(ls, state, fault) ==
    Caught(TrySetItem(ls, STATE_KEY, StringifyAppState(state), fault))

(* getAppState: the read of the version tag, the removal of the snapshot   *)
(* and the write of the tag stand before the try block                     *)
TryGetAppState(ls, fault) ==
    IF fault = "denied" THEN [val |-> Null, ls |-> ls, threw |-> TRUE]
    ELSE IF GetItem(ls, VERSION_KEY) # ExpectedTag
         THEN [val   |-> Null,
               ls    |-> TrySetItem(RemoveItem(ls, STATE_KEY), VERSION_KEY,
                                    <<CURRENT_VERSION>>, fault).ls,
               threw |-> TrySetItem(RemoveItem(ls, STATE_KEY), VERSION_KEY,
                                    <<CURRENT_VERSION>>, fault).threw]
         ELSE [val |-> getAppState(ls).val, ls |-> ls, threw |-> FALSE]

TrySaveApiKey(ls, key, fault) == Caught(TrySetItem(ls, API_KEY_STORAGE_KEY, key, fault))

TryRemoveApiKey(ls, fault) == Caught(TryRemoveItem(ls, API_KEY_STORAGE_KEY, fault))

(* One call of a writing operation while the storage answers as fault says *)
Called(op, fault, outcome) ==
    /\ localStorage' = outcome.ls
    /\ UNCHANGED <<now, appVars, calls>>
    /\ exported' = Null
    /\ last' = NoLast
    /\ alerts' = <<>>
    /\ returned' = [op |-> op, arg |-> Some(<<fault>>), val |-> Null, threw |-> outcome.threw]
    /\ UNCHANGED <<profileHistory, dictVars, saveTimer>>

SaveHistoryUnder(fault, text, analysis) ==
    /\ uuidCount < MaxIds
    /\ Len(getHistory(localStorage)) < MaxHist
    /\ uuidCount' = uuidCount + 1
    /\ Called("saveHistory", fault,
              TryAppend(localStorage,
                        saveHistory(localStorage, text, analysis, UUIDs[uuidCount + 1], now),
                        fault))

SaveRewriteHistoryUnder(fault, text, style) ==
    /\ uuidCount < MaxIds
    /\ Len(getHistory(localStorage)) < MaxHist
    /\ uuidCount' = uuidCount + 1
    /\ Called("saveRewriteHistory", fault,
              TryAppend(localStorage,
                        saveRewriteHistory(localStorage, [rewrittenText |-> text, style |-> style],
                                           UUIDs[uuidCount + 1], now),
                        fault))

SaveDictionaryHistoryUnder(fault, term) ==
    /\ uuidCount < MaxIds
    /\ Len(getHistory(localStorage)) < MaxHist
    /\ uuidCount' = uuidCount + 1
    /\ Called("saveDictionaryHistory", fault,
              TryAppend(localStorage,
                        saveDictionaryHistory(localStorage, term, UUIDs[uuidCount + 1], now),
                        fault))

ClearHistoryUnder(fault) ==
    /\ UNCHANGED uuidCount
    /\ Called("clearHistory", fault, TryClearHistory(localStorage, fault))

ImportHistoryUnder(fault, content) ==
    /\ Len(getHistory(TryImportHistoryJSON(localStorage, content, fault).ls)) <= MaxHist
    /\ UNCHANGED uuidCount
    /\ Called("importHistoryJSON", fault, TryImportHistoryJSON(localStorage, content, fault))

SaveAppStateUnder(fault, state) ==
    /\ UNCHANGED uuidCount
    /\ Called("saveAppState", fault, TrySaveAppState(localStorage, state, fault))

GetAppStateUnder(fault) ==
    /\ UNCHANGED uuidCount
    /\ Called("getAppState", fault, TryGetAppState(localStorage, fault))

SaveApiKeyUnder(fault, key) ==
    /\ UNCHANGED uuidCount
    /\ Called("saveApiKey", fault, TrySaveApiKey(localStorage, key, fault))

RemoveApiKeyUnder(fault) ==
    /\ UNCHANGED uuidCount
    /\ Called("removeApiKey", fault, TryRemoveApiKey(localStorage, fault))

(* The writes of the store, each with a storage that may fail under it *)
NextFaulty ==
    \/ \E fault \in Faults, a \in Analyses : SaveHistoryUnder(fault, 20, a)
    \/ \E fault \in Faults, r \in RewriteInputs : SaveRewriteHistoryUnder(fault, r[1], r[2])
    \/ \E fault \in Faults, term \in Terms : SaveDictionaryHistoryUnder(fault, term)
    \/ \E fault \in Faults : ClearHistoryUnder(fault)
    \/ \E fault \in Faults, f \in {LegacyFile, GarbageFile} : ImportHistoryUnder(fault, f)
    \/ \E fault \in Faults, state \in AppStates : SaveAppStateUnder(fault, state)
    \/ \E fault \in Faults : GetAppStateUnder(fault)
    \/ \E fault \in Faults, key \in ApiKeys : SaveApiKeyUnder(fault, key)
    \/ \E fault \in Faults : RemoveApiKeyUnder(fault)

SpecFaulty == Init /\ [][NextFaulty]_vars

(* The record each writing operation writes *)
RecordOf(op) ==
    CASE op \in {"saveHistory", "saveRewriteHistory", "saveDictionaryHistory",
                 "clearHistory", "importHistoryJSON"} -> STORAGE_KEY
      [] op = "saveAppState" -> STATE_KEY
      [] op = "getAppState" -> VERSION_KEY
      [] op \in {"saveApiKey", "removeApiKey"} -> API_KEY_STORAGE_KEY

FailedWrite(op, fault) ==
    \/ fault = "denied"
    \/ fault = "quota" /\ op \notin {"clearHistory", "removeApiKey"}

(* C20: no writing operation of the store lets a storage failure leave it  *)
(* as an exception, and a write that failed leaves the record it was to    *)
(* write as it was.                                                        *)
C20_FailedWritesCaughtAndHarmless ==
    /\ [](~returned.threw)
    /\ [][returned'.op # "none" /\ FailedWrite(returned'.op, returned'.arg[1][1])
          => localStorage'[RecordOf(returned'.op)] = localStorage[RecordOf(returned'.op)]]_vars
----------------------------------------------------------------------------
(* Entries the store creates *)

CreatedIds == {UUIDs[i] : i \in 1..Len(UUIDs)}

(* C25: every entry of the stored history that the store created has a     *)
(* textSnippet of at most 60 characters, equal to the content when the     *)
(* content fits, and a fullText that is the whole content.                 *)
C25_SnippetAtMostSixty ==
    \A e \in Range(getHistory(localStorage)) :
       e.id \in CreatedIds
       => /\ e.textSnippet <= SnippetMax
          /\ e.fullText <= SnippetMax => e.textSnippet = e.fullText
----------------------------------------------------------------------------
(* One active request id for both classes *)

(* C28: when a grammar check or a rewrite starts, no request of either     *)
(* class already in flight is the active one any more; and grammarResult   *)
(* and rewriteResult are never both set.                                   *)
C28_OneResultAtATime ==
    /\ [](~(grammarResult # Null /\ rewriteResult # Null))
    /\ [][\A c \in Calls :
             Begins(c) /\ calls'[c].handler \in {"checkGrammar", "rewrite"}
             => \A d \in Calls \ {c} :
                   InFlight(d) /\ IsRequest(d) => calls'[d].requestId # activeRequestIdRef']_vars
----------------------------------------------------------------------------
(* Quick rewrite *)

(* The quick rewrite of call c is the one the user is waiting for *)
QuickIsCurrent(c) ==
    /\ quickRewriteState.isLoading
    /\ quickRewriteState.selectedStyle = calls[c].style
    /\ grammarResult # Null

(* C26: a quick rewrite that settles after it was stopped, after the input *)
(* was cleared, after a new grammar check started or after another style   *)
(* was selected leaves quickRewriteState as it is.                         *)
C26_StaleQuickRewriteIsInert ==
    [][\A c \in Calls :
          calls[c].handler = "quick" /\ Settles(c) /\ ~QuickIsCurrent(c)
          => UNCHANGED quickRewriteState]_vars
----------------------------------------------------------------------------
(* History entries of committed operations *)

CategoryOf(handler) == IF handler = "checkGrammar" THEN "grammar" ELSE "rewrite"

(* The continuation of call c commits its result in this step *)
Commits(c) ==
    /\ Succeeds(c)
    /\ calls[c].handler \in {"checkGrammar", "rewrite", "quick"}
    /\ IsRequest(c) => IsActive(c)

(* The stored history gained one entry of the category, at its head *)
PrependsOne(category) ==
    /\ Len(getHistory(localStorage')) = Len(getHistory(localStorage)) + 1
    /\ Tail(getHistory(localStorage')) = getHistory(localStorage)
    /\ Head(getHistory(localStorage')).type = category
    /\ \A e \in Range(getHistory(localStorage)) :
          e.timestamp <= Head(getHistory(localStorage')).timestamp

(* C24: a grammar check, rewrite or quick rewrite that succeeds and        *)
(* commits its result puts exactly one new entry of its category at the    *)
(* head of the stored history, no older than the entries behind it; one    *)
(* that succeeds after it was superseded or invalidated changes no         *)
(* history.                                                                *)
C24_CommitAppendsOneEntry ==
    [][\A c \in Calls :
          /\ Commits(c) => PrependsOne(CategoryOf(calls[c].handler))
          /\ Succeeds(c) /\ IsRequest(c) /\ ~IsActive(c)
             => getHistory(localStorage') = getHistory(localStorage)]_vars
----------------------------------------------------------------------------
(* Progress of a request *)

(* The pending remote call of c is over: the attempt in flight does not   *)
(* stay in flight, whatever it answers                                     *)
CallEnds(c) == calls[c].pc = "fn" /\ calls' = [calls EXCEPT ![c] = DoneCall]

(* The application, where no attempt of a remote call stays in flight for  *)
(* ever and every backoff wait ends                                        *)
SpecLive ==
    /\ Init
    /\ [][Next]_vars
    /\ \A c \in Calls : WF_calls(CallEnds(c)) /\ WF_vars(DelayElapses(c))

ActiveRequestInFlight ==
    /\ activeRequestIdRef # 0
    /\ \E c \in Calls :
          InFlight(c) /\ IsRequest(c) /\ calls[c].requestId = activeRequestIdRef

----------------------------------------------------------------------------
(* Profile: the activity calendar and the usage pie chart                  *)
(*                                                                         *)
(* Under SpecProfile a timestamp counts quarter days of local time since   *)
(* the epoch, so that a year of days fits the numbers a stored history     *)
(* can hold; the days of the grid before the epoch have negative numbers.  *)

TicksPerDay == 4

(* new Date(0).getDay(): the epoch fell on a Thursday *)
EpochWeekday == 4

(* toLocalDateString(new Date(timestamp)): the calendar day of an instant *)
toLocalDateString(timestamp) == timestamp \div TicksPerDay

(* Date.getDay() of a calendar day: 0 is Sunday *)
getDay(day) == (day + EpochWeekday) % 7

(* Date.getTime() of a calendar day at 00:00:00 *)
getTime(day) == day * TicksPerDay

weeksToShow == 52

(* activityMap.get(dateStr) || 0 *)
activityCount(history, day) ==
    Cardinality({i \in 1..Len(history) : toLocalDateString(history[i].timestamp) = day})

(* currentWeekSunday: today.getDate() - today.getDay() *)
currentWeekSunday(today) == today - getDay(today)

(* startDate: currentWeekSunday - (weeksToShow - 1) * 7 *)
startDate(today) == currentWeekSunday(today) - ((weeksToShow - 1) * 7)

(* One cell of the grid: weekDays.push({date, tooltip, count, isFuture}) *)
dayCell(history, loopDate, today) ==
    [date |-> loopDate,
     count |-> activityCount(history, loopDate),
     isFuture |-> getTime(loopDate) > getTime(today)]

(* The memoised grid: weeksToShow weeks of 7 days from startDate *)
activityWeeks(history, t) ==
    [w \in 1..weeksToShow |->
        [d \in 1..7 |->
            dayCell(history, startDate(toLocalDateString(t)) + 7 * (w - 1) + (d - 1),
                    toLocalDateString(t))]]

grammarCount(history) ==
    Cardinality({i \in 1..Len(history) : IsGrammarEntry(history[i])})

rewriteCount(history) ==
    Cardinality({i \in 1..Len(history) : history[i].type = "rewrite"})

dictCount(history) ==
    Cardinality({i \in 1..Len(history) : history[i].type = "dictionary"})

totalUsage(history) == grammarCount(history) + rewriteCount(history) + dictCount(history)

(* 2 * Math.PI * radius with radius 60, to the whole unit below *)
circumference == 376

(* getOffset with the total the code divides by, to the whole unit below *)
getOffsetOf(count, total) == IF total = 0 THEN 0 ELSE (count * circumference) \div total

getOffset(history, count) == getOffsetOf(count, totalUsage(history))

(* What one render of the Profile component computes from its state *)
RenderProfile ==
    /\ returned' = [op |-> "render", arg |-> Null, threw |-> FALSE,
                    val |-> Some([activityWeeks |-> activityWeeks(profileHistory, now),
                                  grammarCount |-> grammarCount(profileHistory),
                                  rewriteCount |-> rewriteCount(profileHistory),
                                  dictCount |-> dictCount(profileHistory),
                                  grammarOffset |-> getOffset(profileHistory, grammarCount(profileHistory)),
                                  rewriteOffset |-> getOffset(profileHistory, rewriteCount(profileHistory)),
                                  dictOffset |-> getOffset(profileHistory, dictCount(profileHistory)),
                                  history |-> profileHistory,
                                  today |-> toLocalDateString(now)])]
    /\ last' = NoLast
    /\ alerts' = <<>>
    /\ UNCHANGED <<now, appVars, calls, storeVars, profileHistory, dictVars, saveTimer>>

(* The day the Profile page is opened: one of each weekday *)
ProfileNows == {TicksPerDay * day + 1 : day \in 10..16}

(* Entries as appends and imports store them: made on day 12, on day 13    *)
(* and on day 19, one of them of a category the import took from its file  *)
ProfileEntries ==
    {[EmptyEntry EXCEPT !.timestamp = TicksPerDay * 12 + 3, !.textSnippet = 20,
                        !.fullText = 20, !.isPerfect = TRUE, !.type = "grammar"],
     [EmptyEntry EXCEPT !.timestamp = TicksPerDay * 13, !.textSnippet = 20,
                        !.fullText = 20, !.errorCount = 1],
     [EmptyEntry EXCEPT !.timestamp = TicksPerDay * 13 + 2, !.textSnippet = 61,
                        !.fullText = 61, !.isPerfect = TRUE, !.type = "rewrite",
                        !.rewriteStyle = "Casual"],
     [EmptyEntry EXCEPT !.timestamp = TicksPerDay * 19 + 1, !.textSnippet = 5,
                        !.fullText = 5, !.isPerfect = TRUE, !.type = "dictionary"],
     [EmptyEntry EXCEPT !.timestamp = TicksPerDay * 12, !.textSnippet = 20,
                        !.fullText = 20, !.isPerfect = TRUE, !.type = "spelling"]}

MaxProfileLen == 2

Identified(h) == [i \in 1..Len(h) |-> [h[i] EXCEPT !.id = UUIDs[Len(h) - i + 1]]]

ProfileHistories == UNION {[1..n -> ProfileEntries] : n \in 0..MaxProfileLen}

InitProfile ==
    /\ now \in ProfileNows
    /\ activeRequestIdRef = 0
    /\ minted = 0
    /\ inputText = 0
    /\ grammarResult = Null
    /\ rewriteResult = Null
    /\ quickRewriteState = QuickReset
    /\ loadingState = "IDLE"
    /\ currentView = "profile"
    /\ historyUpdateTrigger = 0
    /\ alerts = <<>>
    /\ calls = [c \in Calls |-> IdleCall]
    /\ \E h \in ProfileHistories :
          localStorage = [k \in Keys |->
                            CASE k = STORAGE_KEY -> IF h = <<>> THEN Null
                                                    ELSE Some(StringifyHistory(Identified(h)))
                              [] k = THEME_KEY -> Some(<<"light">>)
                              [] k = COLOR_KEY -> Some(<<"blue">>)
                              [] k = VERSION_KEY -> ExpectedTag
                              [] OTHER -> Null]
    /\ uuidCount = MaxProfileLen
    /\ exported = Null
    /\ last = NoLast
    /\ returned = NoResult
    /\ profileHistory = <<>>
    /\ isDictionaryOpen = FALSE
    /\ dictionaryTerm = 0
    /\ dictionaryData = Null
    /\ dictionaryLoading = FALSE
    /\ dictionaryError = Null
    /\ lookups = [k \in Lookups |-> IdleLookup]
    /\ saveTimer = Scheduled(0, Null, Null)

NextProfile ==
    \/ LoadData
    \/ RenderProfile

SpecProfile == InitProfile /\ [][NextProfile]_vars

Rendered == returned.op = "render"

(* 52 weeks of 7 consecutive days, from a Sunday, the last week holding today *)
GridShape(weeks, today) ==
    /\ Len(weeks) = 52
    /\ \A w \in 1..Len(weeks) :
          /\ Len(weeks[w]) = 7
          /\ \A d \in 1..7 : weeks[w][d].date = weeks[1][1].date + 7 * (w - 1) + (d - 1)
    /\ getDay(weeks[1][1].date) = 0
    /\ weeks[52][1].date <= today
    /\ today <= weeks[52][7].date

GridCounts(weeks, history) ==
    \A w \in 1..Len(weeks) : \A d \in 1..Len(weeks[w]) :
        weeks[w][d].count =
            Cardinality({i \in 1..Len(history) :
                            history[i].timestamp \div TicksPerDay = weeks[w][d].date})

GridFuture(weeks, today) ==
    \A w \in 1..Len(weeks) : \A d \in 1..Len(weeks[w]) :
        weeks[w][d].isFuture <=> weeks[w][d].date > today

FutureDaysEmpty(weeks) ==
    \A w \in 1..Len(weeks) : \A d \in 1..Len(weeks[w]) :
        weeks[w][d].isFuture => weeks[w][d].count = 0

(* The grid without the claim that future days are empty *)
GridAsComputed ==
    Rendered => /\ GridShape(returned.val[1].activityWeeks, returned.val[1].today)
                /\ GridCounts(returned.val[1].activityWeeks, returned.val[1].history)
                /\ GridFuture(returned.val[1].activityWeeks, returned.val[1].today)

(* C21: the activity grid is 52 weeks of 7 consecutive days ending with    *)
(* the current week, each day's count is the number of history entries of  *)
(* that local calendar day, a day is flagged future exactly when it is     *)
(* after today, and every future-flagged day has count 0.                  *)
C21_ActivityGrid ==
    Rendered => /\ GridShape(returned.val[1].activityWeeks, returned.val[1].today)
                /\ GridCounts(returned.val[1].activityWeeks, returned.val[1].history)
                /\ GridFuture(returned.val[1].activityWeeks, returned.val[1].today)
                /\ FutureDaysEmpty(returned.val[1].activityWeeks)

KnownCategories == {"grammar", "rewrite", "dictionary", Undefined, ""}

(* offset is count / total of the circumference, to the whole unit below *)
IsProportion(offset, count, total) ==
    IF total = 0 THEN offset = 0
    ELSE /\ offset * total <= count * circumference
         /\ count * circumference < (offset + 1) * total

PieOf(r) ==
    /\ r.grammarCount + r.rewriteCount + r.dictCount = Len(r.history)
    /\ IsProportion(r.grammarOffset, r.grammarCount, Len(r.history))
    /\ IsProportion(r.rewriteOffset, r.rewriteCount, Len(r.history))
    /\ IsProportion(r.dictOffset, r.dictCount, Len(r.history))

(* The breakdown of the histories whose entries all have a known category *)
PieOfKnownCategories ==
    Rendered /\ (\A i \in 1..Len(returned.val[1].history) :
                    returned.val[1].history[i].type \in KnownCategories)
        => PieOf(returned.val[1])

(* C22: the grammar, rewrite and dictionary counts of the breakdown sum to *)
(* the number of history entries, and each category's proportion is        *)
(* count/total, 0 when the total is 0.                                     *)
C22_PieCountsSumToTotal == Rendered => PieOf(returned.val[1])

----------------------------------------------------------------------------
(* Dictionary lookups: handleDictionarySearch and its fetch                *)

(* The words searched for; 0 is a blank search field *)
DictTerms == {0, 5, 7}

(* response.json() of the dictionary service for a word *)
DefinitionOf(term) == [word |-> term]

DictionaryErrorMessage == "Could not find definition."

(* fetch resolves with a definition, resolves with a status that is not    *)
(* ok, or rejects                                                          *)
FetchOutcomes == {"ok", "notfound", "rejected"}

LookupPending(k) == lookups[k].pc = "fetch"

(* Header.onSearch / DictionaryModal.onSearch: handleDictionarySearch(term) *)
(* up to its await. A blank term returns at once.                           *)
handleDictionarySearch(k, term) ==
    /\ ~LookupPending(k)
    /\ \A j \in Lookups : j < k => LookupPending(j)
    /\ IF term = 0
       THEN UNCHANGED dictVars
       ELSE /\ dictionaryTerm' = term
            /\ isDictionaryOpen' = TRUE
            /\ dictionaryLoading' = TRUE
            /\ dictionaryError' = Null
            /\ dictionaryData' = Null
            /\ lookups' = [j \in Lookups |->
                             IF j = k THEN [pc |-> "fetch", term |-> term,
                                            requests |-> 1, later |-> FALSE]
                             ELSE IF LookupPending(j) THEN [lookups[j] EXCEPT !.later = TRUE]
                             ELSE lookups[j]]
    /\ UNCHANGED <<now, appVars, calls, storeVars, profileHistory, saveTimer>>
    /\ NoEvent

(* The rest of handleDictionarySearch, after the fetch has settled: the    *)
(* try block on a definition, the catch block otherwise, then finally      *)
FetchSettles(k, outcome) ==
    /\ LookupPending(k)
    /\ IF outcome = "ok"
       THEN /\ uuidCount < MaxIds
            /\ Len(getHistory(localStorage)) < MaxHist
            /\ dictionaryData' = Some(DefinitionOf(lookups[k].term))
            /\ localStorage' = saveDictionaryHistory(localStorage, lookups[k].term,
                                                     UUIDs[uuidCount + 1], now)
            /\ uuidCount' = uuidCount + 1
            /\ historyUpdateTrigger' = historyUpdateTrigger + 1
            /\ UNCHANGED dictionaryError
       ELSE /\ dictionaryError' = Some(DictionaryErrorMessage)
            /\ UNCHANGED <<dictionaryData, localStorage, uuidCount, historyUpdateTrigger>>
    /\ dictionaryLoading' = FALSE
    /\ lookups' = [lookups EXCEPT ![k].pc = IF outcome = "ok" THEN "found" ELSE "failed"]
    /\ UNCHANGED <<now, activeRequestIdRef, inputText, grammarResult, rewriteResult,
                   quickRewriteState, loadingState, currentView, minted, calls, exported,
                   profileHistory, isDictionaryOpen, dictionaryTerm, saveTimer>>
    /\ NoEvent

(* DictionaryModal.onClose *)
CloseDictionary ==
    /\ isDictionaryOpen
    /\ isDictionaryOpen' = FALSE
    /\ UNCHANGED <<dictionaryTerm, dictionaryData, dictionaryLoading, dictionaryError, lookups>>
    /\ UNCHANGED <<now, appVars, calls, storeVars, profileHistory, saveTimer>>
    /\ NoEvent

NextDict ==
    \/ Tick
    \/ \E k \in Lookups, term \in DictTerms : handleDictionarySearch(k, term)
    \/ \E k \in Lookups, outcome \in FetchOutcomes : FetchSettles(k, outcome)
    \/ CloseDictionary

SpecDict == Init /\ [][NextDict]_vars

(* The fetch of lookup k settles in this step *)
LookupSettles(k) == LookupPending(k) /\ ~LookupPending(k)'

(* C30: once a later search has started, a late response of the earlier    *)
(* search sets none of dictionaryData, dictionaryError, dictionaryLoading;  *)
(* dictionaryData, when not null, is the result for dictionaryTerm, and     *)
(* dictionaryLoading is true while the latest lookup is pending.            *)
C30_LatestSearchWins ==
    /\ [](dictionaryData # Null => dictionaryData[1] = DefinitionOf(dictionaryTerm))
    /\ []((\E k \in Lookups : LookupPending(k) /\ ~lookups[k].later) => dictionaryLoading)
    /\ [][\A k \in Lookups : LookupSettles(k) /\ lookups[k].later =>
             UNCHANGED <<dictionaryData, dictionaryError, dictionaryLoading>>]_vars

(* C23: a search issues exactly one request; a lookup that is not found or  *)
(* fails ends with dictionaryError set, dictionaryData null and loading     *)
(* false and appends no history entry; a lookup that succeeds appends       *)
(* exactly one entry of category dictionary.                                *)
C23_LookupOnceAndOutcome ==
    [][\A k \in Lookups : LookupSettles(k) =>
          /\ lookups[k].requests = 1
          /\ lookups'[k].requests = 1
          /\ lookups'[k].pc = "failed" =>
                /\ dictionaryError' # Null
                /\ dictionaryData' = Null
                /\ dictionaryLoading' = FALSE
                /\ getHistory(localStorage') = getHistory(localStorage)
          /\ lookups'[k].pc = "found" =>
                /\ Len(getHistory(localStorage')) = Len(getHistory(localStorage)) + 1
                /\ Tail(getHistory(localStorage')) = getHistory(localStorage)
                /\ Head(getHistory(localStorage')).type = "dictionary"
                /\ Head(getHistory(localStorage')).fullText = lookups[k].term]_vars

----------------------------------------------------------------------------
(* The debounced snapshot save of App                                      *)

(* The callback of the timer: saveAppState of the state the effect closed  *)
(* over, DebounceDelay after the effect ran; a storage failure is caught   *)
(* inside saveAppState                                                     *)
SaveTimerFires(fault) ==
    /\ saveTimer # Null
    /\ localStorage' = TrySaveAppState(localStorage, saveTimer[1].state, fault).ls
    /\ saveTimer' = Null
    /\ returned' = [op |-> "saveAppState", threw |-> FALSE, val |-> Null,
                    arg |-> Some([state |-> saveTimer[1].state, fault |-> fault])]
    /\ last' = NoLast
    /\ alerts' = <<>>
    /\ UNCHANGED <<now, appVars, calls, uuidCount, exported, profileHistory, dictVars>>

NextPersist ==
    \/ Next
    \/ \E fault \in Faults : SaveTimerFires(fault)

SpecPersist == Init /\ [][NextPersist]_vars

(* The state the effect tracks, as the snapshot holds it *)
Tracked == [inputText |-> inputText, grammarResult |-> grammarResult,
            rewriteResult |-> rewriteResult, colorScheme |-> "blue"]

TimerFires == saveTimer # Null /\ saveTimer' = Null

(* A grammar check or a rewrite commits its result in this step *)
CommitsResult(c) ==
    /\ Commits(c)
    /\ calls[c].handler \in {"checkGrammar", "rewrite"}

Snapshot(ls) == GetItem(ls, STATE_KEY)

(* C27: a committed grammar or rewrite result is appended to the history   *)
(* in the step that commits it, while the snapshot holding it is still     *)
(* pending; the snapshot is written only by the timer, DebounceDelay after *)
(* the last change of the tracked state, each change replacing the pending *)
(* save; and neither a failed nor a replaced save touches the history.     *)
C27_AppendBeforeDebouncedSnapshot ==
    /\ [](saveTimer # Null => /\ saveTimer[1].state = Tracked
                              /\ saveTimer[1].delay = DebounceDelay)
    /\ [][\A c \in Calls : CommitsResult(c) =>
             /\ PrependsOne(CategoryOf(calls[c].handler))
             /\ Snapshot(localStorage') = Snapshot(localStorage)
             /\ saveTimer' = Scheduled(inputText', grammarResult', rewriteResult')]_vars
    /\ [][Snapshot(localStorage') # Snapshot(localStorage) => TimerFires]_vars
    /\ [][Tracked' # Tracked => saveTimer' = Scheduled(inputText', grammarResult', rewriteResult')]_vars
    /\ [][TimerFires => /\ getHistory(localStorage') = getHistory(localStorage)
                        /\ returned'.arg[1].state = Tracked
                        /\ returned'.arg[1].fault = "none"
                              => Snapshot(localStorage') = Some(StringifyAppState(Tracked))
                        /\ returned'.arg[1].fault # "none"
                              => localStorage' = localStorage]_vars

(* A snapshot holding a committed result is written, its history entry     *)
(* being stored already                                                    *)
C27_Witness ==
    /\ returned.op = "saveAppState"
    /\ returned.arg[1].state.grammarResult # Null
    /\ returned.arg[1].fault = "none"
    /\ Snapshot(localStorage) = Some(StringifyAppState(Tracked))
    /\ Len(getHistory(localStorage)) >= 1

============================================================================
